---------------------------- MODULE Spec2Model ----------------------------
(***************************************************************************)
(* A model of jinja2.parser.Parser (src/jinja2/parser.py): the recursive   *)
(* descent parser that turns a token stream into a tree of nodes.          *)
(*                                                                         *)
(* Every parse_* method is an operator of the same name taking the parser  *)
(* (self) and the stream position p; it yields an outcome record           *)
(*   [ok, node, pos, err]                                                  *)
(* where ok says whether the method returned (TRUE) or raised (FALSE),     *)
(* node is the returned value, pos the stream position afterwards and err  *)
(* the exception raised.  The token stream, the node classes and the       *)
(* extension callbacks live outside parser.py and are modelled at their    *)
(* interface.                                                              *)
(***************************************************************************)
EXTENDS Integers, Sequences, FiniteSets, TLC

VARIABLES
    stream,      \* self.stream: the tokens handed over by the lexer
    pos,         \* index of self.stream.current in stream (Len+1: at eof)
    filename,    \* self.filename
    extensions,  \* self.extensions: tag name -> extension callback
    pc,          \* "ready" before the entry point is called, then its name
    outcome      \* what the entry point returned or raised

vars == <<stream, pos, filename, extensions, pc, outcome>>

(***************************************************************************)
(* Module constants of parser.py                                           *)
(***************************************************************************)
statement_end_tokens == {"variable_end", "block_end", "in"}

_statement_keywords == {"for", "if", "block", "extends", "print",
                        "macro", "include", "from", "import"}

_compare_operators == {"eq", "ne", "lt", "lteq", "gt", "gteq", "in"}

_tuple_edge_tokens == {"rparen"} \cup statement_end_tokens

(***************************************************************************)
(* Tokens and the token stream (jinja2.lexer, outside parser.py).          *)
(***************************************************************************)
Token(type, value, lineno) == [type |-> type, value |-> value, lineno |-> lineno]

\* Python's None where a line number is expected
NoLine == 0

\* the token the stream shows once the input is used up
EofToken(self) ==
    Token("eof", "",
          IF Len(self.stream) = 0 THEN 1
          ELSE self.stream[Len(self.stream)].lineno)

\* self.stream.current
Current(self, p) ==
    IF p <= Len(self.stream) THEN self.stream[p] ELSE EofToken(self)

\* self.stream.look(): the token after the current one, nothing consumed
Look(self, p) == Current(self, p + 1)

\* position after self.stream.next(): one token ahead, staying on eof
Next(self, p) == IF p <= Len(self.stream) THEN p + 1 ELSE p

\* position after self.stream.skip(n)
RECURSIVE Skip(_, _, _)
Skip(self, p, n) == IF n = 0 THEN p ELSE Skip(self, Next(self, p), n - 1)

\* token.test(expr): a kind, or "kind:value"
Test(tok, expr) ==
    IF expr = "name:as" THEN tok.type = "name" /\ tok.value = "as"
    ELSE tok.type = expr

\* self.stream.current.test_many(exprs)
TestMany(tok, exprs) == \E e \in exprs : Test(tok, e)

\* bool(self.stream)
HasMore(self, p) == Current(self, p).type # "eof"

(***************************************************************************)
(* Outcomes: a return value with the stream position, or an exception.     *)
(***************************************************************************)
NoneNode == [kind |-> "None"]

NoErr == [kind |-> "", msg |-> <<>>, lineno |-> NoLine, filename |-> ""]

Ok(node, p) == [ok |-> TRUE, node |-> node, pos |-> p, err |-> NoErr]

Raise(self, kind, msg, lineno, p) ==
    [ok |-> FALSE, node |-> NoneNode, pos |-> p,
     err |-> [kind |-> kind, msg |-> msg, lineno |-> lineno,
              filename |-> self.filename]]

\* raise TemplateSyntaxError(msg, lineno, self.filename)
SyntaxError(self, msg, lineno, p) ==
    Raise(self, "TemplateSyntaxError", msg, lineno, p)

\* self.stream.expect(expr): consume the current token if it matches
Expect(self, p, expr) ==
    IF Test(Current(self, p), expr)
    THEN [ok |-> TRUE, node |-> NoneNode, pos |-> Next(self, p), err |-> NoErr,
          token |-> Current(self, p)]
    ELSE [ok |-> FALSE, node |-> NoneNode, pos |-> p,
          err |-> [kind |-> "TemplateSyntaxError",
                   msg |-> <<"expected token, got", expr, Current(self, p).type>>,
                   lineno |-> Current(self, p).lineno,
                   filename |-> self.filename],
          token |-> Current(self, p)]

\* an outcome of Expect seen as an outcome of the method that called it
Fail(r) == [ok |-> FALSE, node |-> NoneNode, pos |-> r.pos, err |-> r.err]

(***************************************************************************)
(* Node classes (jinja2.nodes, outside parser.py).                         *)
(***************************************************************************)
\* a Python list as a value
PyList(items) == [kind |-> "list", items |-> items]

\* Const(value): vtype is the Python type of the value
Const(vtype, value, lineno) ==
    [kind |-> "Const", vtype |-> vtype, value |-> value, lineno |-> lineno]

\* the Python type of a literal token's value
ValueType(toktype) ==
    CASE toktype = "integer" -> "int"
      [] toktype = "float" -> "float"
      [] OTHER -> "str"

Name(name, ctx, lineno) ==
    [kind |-> "Name", name |-> name, ctx |-> ctx, lineno |-> lineno]

Tuple(items, ctx, lineno) ==
    [kind |-> "Tuple", items |-> items, ctx |-> ctx, lineno |-> lineno]

BinExpr(kind, left, right, lineno) ==
    [kind |-> kind, left |-> left, right |-> right, lineno |-> lineno]

UnaryExpr(kind, node, lineno) ==
    [kind |-> kind, node |-> node, lineno |-> lineno]

Operand(op, expr) == [kind |-> "Operand", op |-> op, expr |-> expr, lineno |-> NoLine]

Subscript(node, arg, ctx, lineno) ==
    [kind |-> "Subscript", node |-> node, arg |-> arg, ctx |-> ctx, lineno |-> lineno]

Slice(start, stop, step, lineno) ==
    [kind |-> "Slice", start |-> start, stop |-> stop, step |-> step, lineno |-> lineno]

Call(node, args, kwargs, dyn_args, dyn_kwargs, lineno) ==
    [kind |-> "Call", node |-> node, args |-> args, kwargs |-> kwargs,
     dyn_args |-> dyn_args, dyn_kwargs |-> dyn_kwargs, lineno |-> lineno]

\* the 4-tuple parse_call returns when it is given no callee
CallArgs(args, kwargs, dyn_args, dyn_kwargs) ==
    [kind |-> "tuple", args |-> args, kwargs |-> kwargs,
     dyn_args |-> dyn_args, dyn_kwargs |-> dyn_kwargs]

Filter(node, name, a, lineno) ==
    [kind |-> "Filter", node |-> node, name |-> name, args |-> a.args,
     kwargs |-> a.kwargs, dyn_args |-> a.dyn_args, dyn_kwargs |-> a.dyn_kwargs,
     lineno |-> lineno]

TestNode(node, name, a, lineno) ==
    [kind |-> "Test", node |-> node, name |-> name, args |-> a.args,
     kwargs |-> a.kwargs, dyn_args |-> a.dyn_args, dyn_kwargs |-> a.dyn_kwargs,
     lineno |-> lineno]

\* self.method(...): every call from one method of the parser to another
\* goes through Invoke, defined after the methods
RECURSIVE Invoke(_, _, _, _)

\* the methods an expression descends through, declared before their callers
RECURSIVE parse_condexpr(_, _), parse_or(_, _), parse_and(_, _), parse_compare(_, _)
RECURSIVE parse_add(_, _), parse_sub(_, _), parse_concat(_, _), parse_mul(_, _)
RECURSIVE parse_div(_, _), parse_floordiv(_, _), parse_mod(_, _), parse_pow(_, _)
RECURSIVE parse_unary(_, _), parse_primary(_, _, _), parse_tuple(_, _, _, _, _)

(***************************************************************************)
(* Expressions: parse_expression .. parse_unary                            *)
(***************************************************************************)
parse_expression(self, p, no_condexpr) ==
    IF no_condexpr THEN parse_or(self, p) ELSE parse_condexpr(self, p)

RECURSIVE parse_condexpr_loop(_, _, _, _)
parse_condexpr_loop(self, expr1, lineno, p) ==
    IF Current(self, p).type # "if" THEN Ok(expr1, p)
    ELSE LET r2 == Invoke("parse_or", self, Next(self, p), <<>>)
             e == Expect(self, r2.pos, "else")
             r3 == Invoke("parse_condexpr", self, e.pos, <<>>)
         IN  IF ~r2.ok THEN r2
             ELSE IF ~e.ok THEN Fail(e)
             ELSE IF ~r3.ok THEN r3
             ELSE parse_condexpr_loop(self,
                      [kind |-> "CondExpr", test |-> r2.node, expr1 |-> expr1,
                       expr2 |-> r3.node, lineno |-> lineno],
                      Current(self, r3.pos).lineno, r3.pos)

RECURSIVE parse_or_loop(_, _, _, _)
parse_or_loop(self, left, lineno, p) ==
    IF Current(self, p).type # "or" THEN Ok(left, p)
    ELSE LET r == Invoke("parse_and", self, Next(self, p), <<>>)
         IN  IF ~r.ok THEN r
             ELSE parse_or_loop(self, BinExpr("Or", left, r.node, lineno),
                                Current(self, r.pos).lineno, r.pos)

RECURSIVE parse_and_loop(_, _, _, _)
parse_and_loop(self, left, lineno, p) ==
    IF Current(self, p).type # "and" THEN Ok(left, p)
    ELSE LET r == Invoke("parse_compare", self, Next(self, p), <<>>)
         IN  IF ~r.ok THEN r
             ELSE parse_and_loop(self, BinExpr("And", left, r.node, lineno),
                                 Current(self, r.pos).lineno, r.pos)

\* parse_compare wrapping the expression in a Compare node at every pair
RECURSIVE parse_compare_loop_nested(_, _, _, _, _)
parse_compare_loop_nested(self, expr, ops, lineno, p) ==
    LET token_type == Current(self, p).type
        wrap(op, r) ==
            IF ~r.ok THEN r
            ELSE parse_compare_loop_nested(self,
                     [kind |-> "Compare", expr |-> expr,
                      ops |-> <<Operand(op, r.node)>>, lineno |-> lineno],
                     ops, Current(self, r.pos).lineno, r.pos)
    IN  IF token_type \in _compare_operators
        THEN wrap(token_type, Invoke("parse_add", self, Next(self, p), <<>>))
        ELSE IF token_type = "not" /\ Look(self, p).type = "in"
        THEN wrap("notin", Invoke("parse_add", self, Skip(self, p, 2), <<>>))
        ELSE Ok(expr, p)

RECURSIVE parse_compare_loop(_, _, _, _, _)
parse_compare_loop(self, expr, ops, lineno, p) ==
    LET token_type == Current(self, p).type
        done == IF ops = <<>> THEN Ok(expr, p)
                ELSE Ok([kind |-> "Compare", expr |-> expr, ops |-> ops,
                         lineno |-> lineno], p)
    IN  IF token_type \in _compare_operators
        THEN LET r == Invoke("parse_add", self, Next(self, p), <<>>)
             IN  IF ~r.ok THEN r
                 ELSE parse_compare_loop(self, expr,
                          Append(ops, Operand(token_type, r.node)),
                          Current(self, r.pos).lineno, r.pos)
        ELSE IF token_type = "not" /\ Look(self, p).type = "in"
        THEN LET r == Invoke("parse_add", self, Skip(self, p, 2), <<>>)
             IN  IF ~r.ok THEN r
                 ELSE parse_compare_loop(self, expr,
                          Append(ops, Operand("notin", r.node)),
                          Current(self, r.pos).lineno, r.pos)
        ELSE done

RECURSIVE parse_add_loop(_, _, _, _)
parse_add_loop(self, left, lineno, p) ==
    IF Current(self, p).type # "add" THEN Ok(left, p)
    ELSE LET r == Invoke("parse_sub", self, Next(self, p), <<>>)
         IN  IF ~r.ok THEN r
             ELSE parse_add_loop(self, BinExpr("Add", left, r.node, lineno),
                                 Current(self, r.pos).lineno, r.pos)

RECURSIVE parse_sub_loop(_, _, _, _)
parse_sub_loop(self, left, lineno, p) ==
    IF Current(self, p).type # "sub" THEN Ok(left, p)
    ELSE LET r == Invoke("parse_concat", self, Next(self, p), <<>>)
         IN  IF ~r.ok THEN r
             ELSE parse_sub_loop(self, BinExpr("Sub", left, r.node, lineno),
                                 Current(self, r.pos).lineno, r.pos)

RECURSIVE parse_concat_loop(_, _, _, _)
parse_concat_loop(self, args, lineno, p) ==
    IF Current(self, p).type # "tilde"
    THEN IF Len(args) = 1 THEN Ok(args[1], p)
         ELSE Ok([kind |-> "Concat", nodes |-> args, lineno |-> lineno], p)
    ELSE LET r == Invoke("parse_mul", self, Next(self, p), <<>>)
         IN  IF ~r.ok THEN r
             ELSE parse_concat_loop(self, Append(args, r.node), lineno, r.pos)

\* parse_mul with the right operand read by parse_add, a looser level
RECURSIVE parse_mul_loop_loose(_, _, _, _)
parse_mul_loop_loose(self, left, lineno, p) ==
    IF Current(self, p).type # "mul" THEN Ok(left, p)
    ELSE LET r == Invoke("parse_add", self, Next(self, p), <<>>)
         IN  IF ~r.ok THEN r
             ELSE parse_mul_loop_loose(self, BinExpr("Mul", left, r.node, lineno),
                                       Current(self, r.pos).lineno, r.pos)

RECURSIVE parse_mul_loop(_, _, _, _)
parse_mul_loop(self, left, lineno, p) ==
    IF Current(self, p).type # "mul" THEN Ok(left, p)
    ELSE LET r == Invoke("parse_div", self, Next(self, p), <<>>)
         IN  IF ~r.ok THEN r
             ELSE parse_mul_loop(self, BinExpr("Mul", left, r.node, lineno),
                                 Current(self, r.pos).lineno, r.pos)

RECURSIVE parse_div_loop(_, _, _, _)
parse_div_loop(self, left, lineno, p) ==
    IF Current(self, p).type # "div" THEN Ok(left, p)
    ELSE LET r == Invoke("parse_floordiv", self, Next(self, p), <<>>)
         IN  IF ~r.ok THEN r
             ELSE parse_div_loop(self, BinExpr("Div", left, r.node, lineno),
                                 Current(self, r.pos).lineno, r.pos)

RECURSIVE parse_floordiv_loop(_, _, _, _)
parse_floordiv_loop(self, left, lineno, p) ==
    IF Current(self, p).type # "floordiv" THEN Ok(left, p)
    ELSE LET r == Invoke("parse_mod", self, Next(self, p), <<>>)
         IN  IF ~r.ok THEN r
             ELSE parse_floordiv_loop(self, BinExpr("FloorDiv", left, r.node, lineno),
                                      Current(self, r.pos).lineno, r.pos)

RECURSIVE parse_mod_loop(_, _, _, _)
parse_mod_loop(self, left, lineno, p) ==
    IF Current(self, p).type # "mod" THEN Ok(left, p)
    ELSE LET r == Invoke("parse_pow", self, Next(self, p), <<>>)
         IN  IF ~r.ok THEN r
             ELSE parse_mod_loop(self, BinExpr("Mod", left, r.node, lineno),
                                 Current(self, r.pos).lineno, r.pos)

\* parse_pow with the right operand read by parse_pow itself, which makes
\* the chain lean to the right
RECURSIVE parse_pow_loop_right(_, _, _, _)
parse_pow_loop_right(self, left, lineno, p) ==
    IF Current(self, p).type # "pow" THEN Ok(left, p)
    ELSE LET r == Invoke("parse_pow", self, Next(self, p), <<>>)
         IN  IF ~r.ok THEN r
             ELSE parse_pow_loop_right(self, BinExpr("Pow", left, r.node, lineno),
                                       Current(self, r.pos).lineno, r.pos)

RECURSIVE parse_pow_loop(_, _, _, _)
parse_pow_loop(self, left, lineno, p) ==
    IF Current(self, p).type # "pow" THEN Ok(left, p)
    ELSE LET r == Invoke("parse_unary", self, Next(self, p), <<>>)
         IN  IF ~r.ok THEN r
             ELSE parse_pow_loop(self, BinExpr("Pow", left, r.node, lineno),
                                 Current(self, r.pos).lineno, r.pos)

parse_unary(self, p) ==
    LET token_type == Current(self, p).type
        lineno == Current(self, p).lineno
        r == parse_unary(self, Next(self, p))
    IN  CASE token_type = "not" ->
               IF r.ok THEN Ok(UnaryExpr("Not", r.node, lineno), r.pos) ELSE r
          [] token_type = "sub" ->
               IF r.ok THEN Ok(UnaryExpr("Neg", r.node, lineno), r.pos) ELSE r
          [] token_type = "add" ->
               IF r.ok THEN Ok(UnaryExpr("Pos", r.node, lineno), r.pos) ELSE r
          [] OTHER -> parse_primary(self, p, TRUE)

\* the methods parse_condexpr .. parse_pow, each of which parses its first
\* operand with the method after it in this list, the last with parse_unary
ExprChain ==
    <<"parse_condexpr", "parse_or", "parse_and", "parse_compare", "parse_add",
      "parse_sub", "parse_concat", "parse_mul", "parse_div", "parse_floordiv",
      "parse_mod", "parse_pow">>

\* the statements of a method of ExprChain after its first operand, parsed
\* from position p, returned as left
AfterFirst(method, self, p, left) ==
    LET lineno == Current(self, p).lineno
    IN  CASE method = "parse_condexpr" ->
               parse_condexpr_loop(self, left.node, lineno, left.pos)
          [] method = "parse_or" -> parse_or_loop(self, left.node, lineno, left.pos)
          [] method = "parse_and" -> parse_and_loop(self, left.node, lineno, left.pos)
          [] method = "parse_compare" ->
               parse_compare_loop(self, left.node, <<>>, lineno, left.pos)
          [] method = "parse_add" -> parse_add_loop(self, left.node, lineno, left.pos)
          [] method = "parse_sub" -> parse_sub_loop(self, left.node, lineno, left.pos)
          [] method = "parse_concat" ->
               parse_concat_loop(self, <<left.node>>, lineno, left.pos)
          [] method = "parse_mul" -> parse_mul_loop(self, left.node, lineno, left.pos)
          [] method = "parse_div" -> parse_div_loop(self, left.node, lineno, left.pos)
          [] method = "parse_floordiv" ->
               parse_floordiv_loop(self, left.node, lineno, left.pos)
          [] method = "parse_mod" -> parse_mod_loop(self, left.node, lineno, left.pos)
          [] method = "parse_pow" -> parse_pow_loop(self, left.node, lineno, left.pos)

\* the calls nested at position p, from method i of ExprChain outwards to
\* method top, given what method i + 1 returned or raised there: an
\* exception passes through every caller
RECURSIVE Unwind(_, _, _, _, _)
Unwind(self, p, left, i, top) ==
    IF left.ok /\ i >= top
    THEN Unwind(self, p, AfterFirst(ExprChain[i], self, p, left), i - 1, top)
    ELSE left

\* a method of ExprChain called at p: the chain of first-operand calls
\* reaches parse_unary at p, and the callers then continue innermost first
CallChain(self, p, method) ==
    Unwind(self, p, parse_unary(self, p), Len(ExprChain),
           CHOOSE i \in 1..Len(ExprChain) : ExprChain[i] = method)

parse_condexpr(self, p) == CallChain(self, p, "parse_condexpr")

parse_or(self, p) == CallChain(self, p, "parse_or")

parse_and(self, p) == CallChain(self, p, "parse_and")

parse_compare(self, p) == CallChain(self, p, "parse_compare")

parse_add(self, p) == CallChain(self, p, "parse_add")

parse_sub(self, p) == CallChain(self, p, "parse_sub")

parse_concat(self, p) == CallChain(self, p, "parse_concat")

parse_mul(self, p) == CallChain(self, p, "parse_mul")

parse_div(self, p) == CallChain(self, p, "parse_div")

parse_floordiv(self, p) == CallChain(self, p, "parse_floordiv")

parse_mod(self, p) == CallChain(self, p, "parse_mod")

parse_pow(self, p) == CallChain(self, p, "parse_pow")

(***************************************************************************)
(* Primary expressions, tuples, list and dict literals                     *)
(***************************************************************************)
\* an exception that is no TemplateSyntaxError (NameError, AttributeError,
\* AssertionError): it carries a message only
PyError(kind, msg, p) ==
    [ok |-> FALSE, node |-> NoneNode, pos |-> p,
     err |-> [kind |-> kind, msg |-> msg, lineno |-> NoLine, filename |-> ""]]

parse_primary(self, p, with_postfix) ==
    LET token == Current(self, p)
        close(t) == LET e == Expect(self, t.pos, "rparen")
                    IN  IF t.ok THEN IF e.ok THEN Ok(t.node, e.pos) ELSE Fail(e)
                        ELSE t
        postfix(r) == IF r.ok /\ with_postfix
                      THEN Invoke("parse_postfix", self, r.pos, <<r.node>>)
                      ELSE r
    IN  postfix(
          CASE token.type = "name" ->
                 Ok(IF token.value \in {"true", "false"}
                    THEN Const("bool", IF token.value = "true" THEN "True" ELSE "False",
                               token.lineno)
                    ELSE IF token.value = "none"
                    THEN Const("NoneType", "None", token.lineno)
                    ELSE Name(token.value, "load", token.lineno),
                    Next(self, p))
            [] token.type \in {"integer", "float", "string"} ->
                 Ok(Const(ValueType(token.type), token.value, token.lineno),
                    Next(self, p))
            [] token.type = "lparen" ->
                 close(parse_tuple(self, Next(self, p), FALSE, FALSE, FALSE))
            [] token.type = "lbracket" -> Invoke("parse_list", self, p, <<>>)
            [] token.type = "lbrace" -> Invoke("parse_dict", self, p, <<>>)
            [] OTHER -> SyntaxError(self, <<"unexpected token", token.type>>,
                                    token.lineno, p))

\* a parse_tuple that wraps whatever it parsed: what the tuple rule excludes
parse_tuple_return_wrapped(self, enforce, args, is_tuple, lineno, p) ==
    Ok(Tuple(args, "load", lineno), p)

\* the statements of parse_tuple after its loop
parse_tuple_return(self, enforce, args, is_tuple, lineno, p) ==
    IF ~is_tuple /\ args # <<>>
    THEN IF enforce THEN SyntaxError(self, <<"tuple expected">>, lineno, p)
         ELSE Ok(args[1], p)
    ELSE Ok(Tuple(args, "load", lineno), p)

RECURSIVE parse_tuple_loop(_, _, _, _, _, _, _, _)
parse_tuple_loop(self, p, enforce, simplified, no_condexpr, args, is_tuple, lineno) ==
    LET e == IF args # <<>> THEN Expect(self, p, "comma") ELSE Ok(NoneNode, p)
        then(r) ==
            IF r.ok
            THEN IF Current(self, r.pos).type = "comma"
                 THEN parse_tuple_loop(self, r.pos, enforce, simplified, no_condexpr,
                                       Append(args, r.node), TRUE,
                                       Current(self, r.pos).lineno)
                 ELSE parse_tuple_return(self, enforce, Append(args, r.node),
                                         is_tuple, lineno, r.pos)
            ELSE r
    IN  CASE ~e.ok -> Fail(e)
          [] e.ok /\ Current(self, e.pos).type \in _tuple_edge_tokens ->
               parse_tuple_return(self, enforce, args, is_tuple, lineno, e.pos)
          [] OTHER ->
               then(IF simplified THEN parse_primary(self, e.pos, TRUE)
                    ELSE parse_expression(self, e.pos, no_condexpr))

parse_tuple(self, p, enforce, simplified, no_condexpr) ==
    parse_tuple_loop(self, p, enforce, simplified, no_condexpr, <<>>, FALSE,
                     Current(self, p).lineno)

RECURSIVE parse_list_loop(_, _, _, _)
parse_list_loop(self, p, token, items) ==
    LET close(q) == LET c == Expect(self, q, "rbracket")
                    IN  IF ~c.ok THEN Fail(c)
                        ELSE Ok([kind |-> "List", items |-> items,
                                 lineno |-> token.lineno], c.pos)
        e == IF items # <<>> THEN Expect(self, p, "comma") ELSE Ok(NoneNode, p)
        r == Invoke("parse_expression", self, e.pos, <<FALSE>>)
    IN  IF Current(self, p).type = "rbracket" THEN close(p)
        ELSE IF ~e.ok THEN Fail(e)
        ELSE IF Current(self, e.pos).type = "rbracket" THEN close(e.pos)
        ELSE IF ~r.ok THEN r
        ELSE parse_list_loop(self, r.pos, token, Append(items, r.node))

parse_list(self, p) ==
    LET e == Expect(self, p, "lbracket")
    IN  IF ~e.ok THEN Fail(e) ELSE parse_list_loop(self, e.pos, e.token, <<>>)

RECURSIVE parse_dict_loop(_, _, _, _)
parse_dict_loop(self, p, token, items) ==
    LET close(q) == LET c == Expect(self, q, "rbrace")
                    IN  IF ~c.ok THEN Fail(c)
                        ELSE Ok([kind |-> "Dict", items |-> items,
                                 lineno |-> token.lineno], c.pos)
        e == IF items # <<>> THEN Expect(self, p, "comma") ELSE Ok(NoneNode, p)
        key == Invoke("parse_expression", self, e.pos, <<FALSE>>)
        c == Expect(self, key.pos, "colon")
        value == Invoke("parse_expression", self, c.pos, <<FALSE>>)
    IN  IF Current(self, p).type = "rbrace" THEN close(p)
        ELSE IF ~e.ok THEN Fail(e)
        ELSE IF Current(self, e.pos).type = "rbrace" THEN close(e.pos)
        ELSE IF ~key.ok THEN key
        ELSE IF ~c.ok THEN Fail(c)
        ELSE IF ~value.ok THEN value
        ELSE parse_dict_loop(self, value.pos, token,
                 Append(items, [kind |-> "Pair", key |-> key.node,
                                value |-> value.node, lineno |-> key.node.lineno]))

parse_dict(self, p) ==
    LET e == Expect(self, p, "lbrace")
    IN  IF ~e.ok THEN Fail(e) ELSE parse_dict_loop(self, e.pos, e.token, <<>>)

(***************************************************************************)
(* Postfix: subscript, call, filter, test                                  *)
(***************************************************************************)
RECURSIVE parse_postfix(_, _, _)
parse_postfix(self, p, node) ==
    LET token_type == Current(self, p).type
        r == IF token_type = "dot" \/ token_type = "lbracket"
             THEN Invoke("parse_subscript", self, p, <<node>>)
             ELSE IF token_type = "lparen" THEN Invoke("parse_call", self, p, <<node>>)
             ELSE IF token_type = "pipe" THEN Invoke("parse_filter", self, p, <<node, FALSE>>)
             ELSE Invoke("parse_test", self, p, <<node>>)
    IN  IF token_type \notin {"dot", "lbracket", "lparen", "pipe", "is"}
        THEN Ok(node, p)
        ELSE IF ~r.ok THEN r
        ELSE parse_postfix(self, r.pos, r.node)

\* the while loop of parse_subscript: the elements between the brackets
RECURSIVE parse_subscript_loop(_, _, _)
parse_subscript_loop(self, p, args) ==
    LET e == IF args # <<>> THEN Expect(self, p, "comma") ELSE Ok(NoneNode, p)
        r == Invoke("parse_subscribed", self, e.pos, <<>>)
    IN  IF Current(self, p).type = "rbracket" THEN Ok(PyList(args), p)
        ELSE IF ~e.ok THEN Fail(e)
        ELSE IF ~r.ok THEN r
        ELSE parse_subscript_loop(self, r.pos, Append(args, r.node))

\* the index of a bracket subscript: line 538 reads the name lineno, which
\* parse_subscript neither binds nor finds as a global
subscript_index(args, p) ==
    IF Len(args) = 1 THEN Ok(args[1], p)
    ELSE PyError("NameError", <<"global name 'lineno' is not defined">>, p)

parse_subscript(self, p, node) ==
    LET token == Current(self, p)
        p1 == Next(self, p)
        attr_token == Current(self, p1)
        l == parse_subscript_loop(self, p1, <<>>)
        c == Expect(self, l.pos, "rbracket")
        arg == IF token.type = "dot"
               THEN IF attr_token.type \notin {"name", "integer"}
                    THEN SyntaxError(self, <<"expected name or number">>,
                                     attr_token.lineno, p1)
                    ELSE Ok(Const(ValueType(attr_token.type), attr_token.value,
                                  attr_token.lineno), Next(self, p1))
               ELSE IF token.type = "lbracket"
               THEN IF ~l.ok THEN l
                    ELSE IF ~c.ok THEN Fail(c)
                    ELSE subscript_index(l.node.items, c.pos)
               ELSE PyError("AttributeError",
                            <<"'Parser' object has no attribute 'lineno'">>, p1)
    IN  IF ~arg.ok THEN arg
        ELSE Ok(Subscript(node, arg.node, "load", token.lineno), arg.pos)

parse_subscribed(self, p) ==
    LET lineno == Current(self, p).lineno
        node == Invoke("parse_expression", self, p, <<FALSE>>)
        \* after the first segment and its colon: [ok, start, pos]
        first == IF Current(self, p).type = "colon"
                 THEN Ok(NoneNode, Next(self, p))
                 ELSE IF ~node.ok THEN node
                 ELSE Ok(node.node, Next(self, node.pos))
        p1 == first.pos
        second == IF Current(self, p1).type = "colon" THEN Ok(NoneNode, p1)
                  ELSE IF Current(self, p1).type \notin {"rbracket", "comma"}
                  THEN Invoke("parse_expression", self, p1, <<FALSE>>)
                  ELSE Ok(NoneNode, p1)
        p2 == second.pos
        p3 == Next(self, p2)
        third == IF Current(self, p2).type = "colon"
                 THEN IF Current(self, p3).type \notin {"rbracket", "comma"}
                      THEN Invoke("parse_expression", self, p3, <<FALSE>>)
                      ELSE Ok(NoneNode, p3)
                 ELSE Ok(NoneNode, p2)
    IN  IF Current(self, p).type # "colon" /\ ~node.ok THEN node
        ELSE IF Current(self, p).type # "colon"
                /\ Current(self, node.pos).type # "colon" THEN node
        ELSE IF ~second.ok THEN second
        ELSE IF ~third.ok THEN third
        ELSE Ok(Slice(first.node, second.node, third.node, lineno), third.pos)

\* the error of ensure, located at the argument that was refused
ensure_error_at_argument(self, token, p) ==
    SyntaxError(self, <<"invalid syntax for function call expression">>,
                Current(self, p).lineno, p)

\* ensure(expr) of parse_call: the error it raises when expr is false
ensure_error(self, token, p) ==
    SyntaxError(self, <<"invalid syntax for function call expression">>,
                token.lineno, p)

RECURSIVE parse_call_loop(_, _, _, _, _)
parse_call_loop(self, p, token, st, require_comma) ==
    LET e == IF require_comma THEN Expect(self, p, "comma") ELSE Ok(NoneNode, p)
        q == e.pos
        cur == Current(self, q)
        free == st.dyn_args.kind = "None" /\ st.dyn_kwargs.kind = "None"
        iskw == cur.type = "name" /\ Look(self, q).type = "assign"
        r == IF cur.type \in {"mul", "pow"}
             THEN Invoke("parse_expression", self, Next(self, q), <<FALSE>>)
             ELSE IF iskw THEN Invoke("parse_expression", self, Skip(self, q, 2), <<FALSE>>)
             ELSE Invoke("parse_expression", self, q, <<FALSE>>)
        st1 == IF cur.type = "mul" THEN [st EXCEPT !.dyn_args = r.node]
               ELSE IF cur.type = "pow" THEN [st EXCEPT !.dyn_kwargs = r.node]
               ELSE IF iskw
               THEN [st EXCEPT !.kwargs =
                        Append(@, [kind |-> "Keyword", key |-> cur.value,
                                   value |-> r.node, lineno |-> r.node.lineno])]
               ELSE [st EXCEPT !.args = Append(@, r.node)]
    IN  IF Current(self, p).type = "rparen" THEN Ok(st, p)
        ELSE IF ~e.ok THEN Fail(e)
        ELSE IF require_comma /\ cur.type = "rparen" THEN Ok(st, q)
        ELSE IF cur.type = "mul" /\ ~free THEN ensure_error(self, token, q)
        ELSE IF cur.type = "pow" /\ st.dyn_kwargs.kind # "None"
        THEN ensure_error(self, token, q)
        ELSE IF cur.type \notin {"mul", "pow"} /\ ~free
        THEN ensure_error(self, token, q)
        ELSE IF cur.type \notin {"mul", "pow"} /\ ~iskw /\ st.kwargs # <<>>
        THEN ensure_error(self, token, q)
        ELSE IF ~r.ok THEN r
        ELSE parse_call_loop(self, r.pos, token, st1, TRUE)

parse_call(self, p, node) ==
    LET t == Expect(self, p, "lparen")
        l == parse_call_loop(self, t.pos, t.token,
                             CallArgs(<<>>, <<>>, NoneNode, NoneNode), FALSE)
        c == Expect(self, l.pos, "rparen")
        a == l.node
    IN  IF ~t.ok THEN Fail(t)
        ELSE IF ~l.ok THEN l
        ELSE IF ~c.ok THEN Fail(c)
        ELSE IF node.kind = "None" THEN Ok(a, c.pos)
        ELSE Ok(Call(node, a.args, a.kwargs, a.dyn_args, a.dyn_kwargs,
                     t.token.lineno), c.pos)

RECURSIVE parse_filter(_, _, _, _)
parse_filter(self, p, node, start_inline) ==
    LET p1 == IF ~start_inline THEN Next(self, p) ELSE p
        token == Expect(self, p1, "name")
        a == IF Current(self, token.pos).type = "lparen"
             THEN Invoke("parse_call", self, token.pos, <<NoneNode>>)
             ELSE Ok(CallArgs(<<>>, <<>>, NoneNode, NoneNode), token.pos)
    IN  IF ~(Current(self, p).type = "pipe" \/ start_inline) THEN Ok(node, p)
        ELSE IF ~token.ok THEN Fail(token)
        ELSE IF ~a.ok THEN a
        ELSE parse_filter(self, a.pos,
                 Filter(node, token.token.value, a.node, token.token.lineno),
                 FALSE)

\* parse_test with the negation put around the input of the Test node
parse_test_negated_input(self, p, node) ==
    LET token == Expect(self, p, "is")
        negated == Current(self, token.pos).type = "not"
        name == Expect(self, IF negated THEN Next(self, token.pos) ELSE token.pos,
                       "name")
        input == IF negated THEN UnaryExpr("Not", node, token.token.lineno) ELSE node
    IN  IF ~token.ok THEN Fail(token)
        ELSE IF ~name.ok THEN Fail(name)
        ELSE Ok(TestNode(input, name.token.value,
                         CallArgs(<<>>, <<>>, NoneNode, NoneNode),
                         token.token.lineno), name.pos)

parse_test(self, p, node) ==
    LET token == Expect(self, p, "is")
        negated == Current(self, token.pos).type = "not"
        p1 == IF negated THEN Next(self, token.pos) ELSE token.pos
        name == Expect(self, p1, "name")
        p2 == name.pos
        x == Invoke("parse_expression", self, p2, <<FALSE>>)
        a == IF Current(self, p2).type = "lparen"
             THEN Invoke("parse_call", self, p2, <<NoneNode>>)
             ELSE IF Current(self, p2).type \in
                        {"name", "string", "integer", "float", "lparen",
                         "lbracket", "lbrace", "regex"}
             THEN IF ~x.ok THEN x
                  ELSE Ok(CallArgs(<<x.node>>, <<>>, NoneNode, NoneNode), x.pos)
             ELSE Ok(CallArgs(<<>>, <<>>, NoneNode, NoneNode), p2)
        test == TestNode(node, name.token.value, a.node, token.token.lineno)
    IN  IF ~token.ok THEN Fail(token)
        ELSE IF ~name.ok THEN Fail(name)
        ELSE IF ~a.ok THEN a
        ELSE IF negated THEN Ok(UnaryExpr("Not", test, token.token.lineno), a.pos)
        ELSE Ok(test, a.pos)

(***************************************************************************)
(* Assignment targets (jinja2.nodes, outside parser.py)                    *)
(***************************************************************************)
\* node.can_assign(): a Name other than the three constants, a Subscript,
\* or a Tuple of assignable elements
RECURSIVE can_assign(_)
can_assign(node) ==
    CASE node.kind = "Name" -> node.name \notin {"true", "false", "none"}
      [] node.kind = "Subscript" -> TRUE
      [] node.kind = "Tuple" ->
            \A i \in 1..Len(node.items) : can_assign(node.items[i])
      [] OTHER -> FALSE

\* node.set_ctx(ctx): the target and the elements of a tuple target
RECURSIVE set_ctx(_, _)
set_ctx(node, ctx) ==
    CASE node.kind = "Tuple" ->
            [node EXCEPT !.ctx = ctx,
                         !.items = [i \in 1..Len(node.items) |->
                                        set_ctx(node.items[i], ctx)]]
      [] node.kind \in {"Name", "Subscript"} -> [node EXCEPT !.ctx = ctx]
      [] OTHER -> node

\* target.__class__.__name__.lower()
ClassNameLower(node) ==
    CASE node.kind = "Const" -> "const"
      [] node.kind = "Name" -> "name"
      [] node.kind = "Tuple" -> "tuple"
      [] node.kind = "List" -> "list"
      [] node.kind = "Dict" -> "dict"
      [] node.kind = "Call" -> "call"
      [] node.kind = "Filter" -> "filter"
      [] node.kind = "Test" -> "test"
      [] node.kind = "Subscript" -> "subscript"
      [] node.kind = "Compare" -> "compare"
      [] node.kind = "Concat" -> "concat"
      [] node.kind = "CondExpr" -> "condexpr"
      [] node.kind = "FloorDiv" -> "floordiv"
      [] node.kind = "Or" -> "or"
      [] node.kind = "And" -> "and"
      [] node.kind = "Not" -> "not"
      [] node.kind = "Neg" -> "neg"
      [] node.kind = "Pos" -> "pos"
      [] node.kind = "Add" -> "add"
      [] node.kind = "Sub" -> "sub"
      [] node.kind = "Mul" -> "mul"
      [] node.kind = "Div" -> "div"
      [] node.kind = "Mod" -> "mod"
      [] node.kind = "Pow" -> "pow"
      [] OTHER -> "node"

\* the characters of the identifiers the model's streams use
Chars(name) ==
    CASE name = "__x" -> <<"_", "_", "x">>
      [] name = "_x" -> <<"_", "x">>
      [] name = "true" -> <<"t", "r", "u", "e">>
      [] name = "false" -> <<"f", "a", "l", "s", "e">>
      [] name = "none" -> <<"n", "o", "n", "e">>
      [] name = "as" -> <<"a", "s">>
      [] name = "tag" -> <<"t", "a", "g">>
      [] OTHER -> <<name>>

\* name.startswith(prefix)
StartsWith(name, prefix) ==
    /\ Len(Chars(name)) >= Len(prefix)
    /\ SubSeq(Chars(name), 1, Len(prefix)) = prefix

(***************************************************************************)
(* Extension callbacks (registered by the environment, outside parser.py): *)
(* a callback consumes its tag and returns one node or a list of nodes.    *)
(***************************************************************************)
ExtNode(tag, n, lineno) ==
    [kind |-> "ExtNode", tag |-> tag, n |-> n, lineno |-> lineno]

\* ext(self) for a callback cb = [shape, count]
CallExtension(self, p, cb) ==
    LET token == Current(self, p)
    IN  IF cb.shape = "node"
        THEN Ok(ExtNode(token.value, 1, token.lineno), Next(self, p))
        ELSE Ok(PyList([i \in 1..cb.count |-> ExtNode(token.value, i, token.lineno)]),
                Next(self, p))

(***************************************************************************)
(* Statements                                                              *)
(***************************************************************************)
parse_extends(self, p) ==
    LET e == Expect(self, p, "extends")
        r == Invoke("parse_expression", self, e.pos, <<FALSE>>)
    IN  IF ~e.ok THEN Fail(e)
        ELSE IF ~r.ok THEN r
        ELSE Ok([kind |-> "Extends", template |-> r.node,
                 lineno |-> e.token.lineno], r.pos)

parse_include(self, p) ==
    LET e == Expect(self, p, "include")
        r == Invoke("parse_expression", self, e.pos, <<FALSE>>)
    IN  IF ~e.ok THEN Fail(e)
        ELSE IF ~r.ok THEN r
        ELSE Ok([kind |-> "Include", template |-> r.node,
                 lineno |-> e.token.lineno], r.pos)

parse_import(self, p) ==
    LET e == Expect(self, p, "import")
        r == Invoke("parse_expression", self, e.pos, <<FALSE>>)
        a == Expect(self, r.pos, "name:as")
        t == Expect(self, a.pos, "name")
    IN  IF ~e.ok THEN Fail(e)
        ELSE IF ~r.ok THEN r
        ELSE IF ~a.ok THEN Fail(a)
        ELSE IF ~t.ok THEN Fail(t)
        ELSE IF ~can_assign(Name(t.token.value, "store", NoLine))
        THEN SyntaxError(self, <<"can't assign imported template to", t.token.value>>,
                         e.token.lineno, t.pos)
        ELSE Ok([kind |-> "Import", template |-> r.node,
                 target |-> t.token.value, lineno |-> e.token.lineno], t.pos)

\* line 177 raises TemplateAssertionError, a name the module never imports
\* (lines 11-13): evaluating it raises NameError
reserved_name_error(self, target, p) ==
    PyError("NameError",
            <<"global name 'TemplateAssertionError' is not defined">>, p)

RECURSIVE parse_from_loop(_, _, _)
parse_from_loop(self, p, names) ==
    LET e == IF names # <<>> THEN Expect(self, p, "comma") ELSE Ok(NoneNode, p)
        q == e.pos
        target == Name(Current(self, q).value, "store", NoLine)
        q1 == Next(self, q)
        q2 == Next(self, q1)
        alias == Expect(self, q2, "name")
        hasalias == Test(Current(self, q1), "name:as")
        names1 == IF hasalias
                  THEN Append(names, [kind |-> "tuple",
                                      items |-> <<target.name, alias.token.value>>])
                  ELSE Append(names, [kind |-> "str", items |-> <<target.name>>])
        q3 == IF hasalias THEN alias.pos ELSE q1
    IN  IF ~e.ok THEN Fail(e)
        ELSE IF Current(self, q).type # "name" THEN Ok(PyList(names), q)
        ELSE IF ~can_assign(target)
        THEN SyntaxError(self, <<"can't import object named", target.name>>,
                         target.lineno, q)
        ELSE IF StartsWith(target.name, <<"_", "_">>)
        THEN reserved_name_error(self, target, q)
        ELSE IF hasalias /\ ~alias.ok THEN Fail(alias)
        ELSE IF hasalias /\ ~can_assign(Name(alias.token.value, "store", NoLine))
        THEN SyntaxError(self, <<"can't name imported object", alias.token.value>>,
                         alias.token.lineno, alias.pos)
        ELSE IF Current(self, q3).type # "comma" THEN Ok(PyList(names1), q3)
        ELSE parse_from_loop(self, q3, names1)

parse_from(self, p) ==
    LET e == Expect(self, p, "from")
        r == Invoke("parse_expression", self, e.pos, <<FALSE>>)
        i == Expect(self, r.pos, "import")
        l == parse_from_loop(self, i.pos, <<>>)
    IN  IF ~e.ok THEN Fail(e)
        ELSE IF ~r.ok THEN r
        ELSE IF ~i.ok THEN Fail(i)
        ELSE IF ~l.ok THEN l
        ELSE Ok([kind |-> "FromImport", template |-> r.node,
                 names |-> l.node.items, lineno |-> e.token.lineno],
                IF Current(self, l.pos).type = "comma"
                THEN Next(self, l.pos) ELSE l.pos)

RECURSIVE parse_signature_loop(_, _, _, _)
parse_signature_loop(self, p, args, defaults) ==
    LET e == IF args # <<>> THEN Expect(self, p, "comma") ELSE Ok(NoneNode, p)
        token == Expect(self, e.pos, "name")
        arg == Name(token.token.value, "param", token.token.lineno)
        hasdefault == Current(self, token.pos).type = "assign"
        d == Invoke("parse_expression", self, Next(self, token.pos), <<FALSE>>)
    IN  IF Current(self, p).type = "rparen"
        THEN Ok([kind |-> "signature", args |-> args, defaults |-> defaults], p)
        ELSE IF ~e.ok THEN Fail(e)
        ELSE IF ~token.ok THEN Fail(token)
        ELSE IF ~can_assign(arg)
        THEN SyntaxError(self, <<"can't assign to", arg.name>>, arg.lineno, token.pos)
        ELSE IF hasdefault /\ ~d.ok THEN d
        ELSE IF hasdefault
        THEN parse_signature_loop(self, d.pos, Append(args, arg),
                                  Append(defaults, d.node))
        ELSE parse_signature_loop(self, token.pos, Append(args, arg), defaults)

\* parse_signature(node): the args and defaults it stores on node
parse_signature(self, p) ==
    LET e == Expect(self, p, "lparen")
        l == parse_signature_loop(self, e.pos, <<>>, <<>>)
        c == Expect(self, l.pos, "rparen")
    IN  IF ~e.ok THEN Fail(e)
        ELSE IF ~l.ok THEN l
        ELSE IF ~c.ok THEN Fail(c)
        ELSE Ok(l.node, c.pos)

\* the error of an invalid assignment target in parse_assign and parse_for
target_error(self, target, p) ==
    SyntaxError(self, <<"can't assign to", ClassNameLower(target)>>,
                target.lineno, p)

\* an assignment that sets the store context without asking can_assign
parse_assign_unchecked(self, p, target) ==
    LET e == Expect(self, p, "assign")
        r == Invoke("parse_tuple", self, e.pos, <<FALSE, FALSE, FALSE>>)
    IN  IF ~e.ok THEN Fail(e)
        ELSE IF ~r.ok THEN r
        ELSE Ok([kind |-> "Assign", target |-> set_ctx(target, "store"),
                 node |-> r.node, lineno |-> e.token.lineno], r.pos)

parse_assign(self, p, target) ==
    LET e == Expect(self, p, "assign")
        r == Invoke("parse_tuple", self, e.pos, <<FALSE, FALSE, FALSE>>)
    IN  IF ~e.ok THEN Fail(e)
        ELSE IF ~can_assign(target) THEN target_error(self, target, e.pos)
        ELSE IF ~r.ok THEN r
        ELSE Ok([kind |-> "Assign", target |-> set_ctx(target, "store"),
                 node |-> r.node, lineno |-> e.token.lineno], r.pos)

\* end_tokens is a set of token tests; subparse's None is the empty set
\* a parse_statements that consumes the end keyword whether or not
\* drop_needle is set
parse_statements_always_drop(self, p, end_tokens, drop_needle) ==
    LET p1 == IF Current(self, p).type = "colon" THEN Next(self, p) ELSE p
        e == Expect(self, p1, "block_end")
        r == Invoke("subparse", self, e.pos, <<end_tokens>>)
    IN  IF ~e.ok THEN Fail(e)
        ELSE IF ~r.ok THEN r
        ELSE Ok(r.node, Next(self, r.pos))

parse_statements(self, p, end_tokens, drop_needle) ==
    LET p1 == IF Current(self, p).type = "colon" THEN Next(self, p) ELSE p
        e == Expect(self, p1, "block_end")
        r == Invoke("subparse", self, e.pos, <<end_tokens>>)
    IN  IF ~e.ok THEN Fail(e)
        ELSE IF ~r.ok THEN r
        ELSE IF drop_needle THEN Ok(r.node, Next(self, r.pos))
        ELSE r

\* parse_for with the iterable read by parse_tuple in its default mode,
\* conditional expressions enabled
parse_for_with_condexpr(self, p) ==
    LET e == Expect(self, p, "for")
        target == Invoke("parse_tuple", self, e.pos, <<FALSE, TRUE, FALSE>>)
        i == Expect(self, target.pos, "in")
        iter == Invoke("parse_tuple", self, i.pos, <<FALSE, FALSE, FALSE>>)
        hastest == Current(self, iter.pos).type = "if"
        test == IF hastest THEN Invoke("parse_expression", self, Next(self, iter.pos), <<FALSE>>)
                ELSE Ok(NoneNode, iter.pos)
        body == Invoke("parse_statements", self, test.pos, <<{"endfor", "else"}, FALSE>>)
        else_ == IF Current(self, body.pos).type = "endfor"
                 THEN Ok(PyList(<<>>), Next(self, body.pos))
                 ELSE Invoke("parse_statements", self, Next(self, body.pos), <<{"endfor"}, TRUE>>)
    IN  IF ~e.ok THEN Fail(e)
        ELSE IF ~target.ok THEN target
        ELSE IF ~can_assign(target.node)
        THEN target_error(self, target.node, target.pos)
        ELSE IF ~i.ok THEN Fail(i)
        ELSE IF ~iter.ok THEN iter
        ELSE IF ~test.ok THEN test
        ELSE IF ~body.ok THEN body
        ELSE IF ~else_.ok THEN else_
        ELSE Ok([kind |-> "For", target |-> set_ctx(target.node, "store"),
                 iter |-> iter.node, body |-> body.node.items,
                 else_ |-> else_.node.items, test |-> test.node,
                 lineno |-> e.token.lineno], else_.pos)

parse_for(self, p) ==
    LET e == Expect(self, p, "for")
        target == Invoke("parse_tuple", self, e.pos, <<FALSE, TRUE, FALSE>>)
        i == Expect(self, target.pos, "in")
        iter == Invoke("parse_tuple", self, i.pos, <<FALSE, FALSE, TRUE>>)
        hastest == Current(self, iter.pos).type = "if"
        test == IF hastest THEN Invoke("parse_expression", self, Next(self, iter.pos), <<FALSE>>)
                ELSE Ok(NoneNode, iter.pos)
        body == Invoke("parse_statements", self, test.pos, <<{"endfor", "else"}, FALSE>>)
        else_ == IF Current(self, body.pos).type = "endfor"
                 THEN Ok(PyList(<<>>), Next(self, body.pos))
                 ELSE Invoke("parse_statements", self, Next(self, body.pos), <<{"endfor"}, TRUE>>)
    IN  IF ~e.ok THEN Fail(e)
        ELSE IF ~target.ok THEN target
        ELSE IF ~can_assign(target.node)
        THEN target_error(self, target.node, target.pos)
        ELSE IF ~i.ok THEN Fail(i)
        ELSE IF ~iter.ok THEN iter
        ELSE IF ~test.ok THEN test
        ELSE IF ~body.ok THEN body
        ELSE IF ~else_.ok THEN else_
        ELSE Ok([kind |-> "For", target |-> set_ctx(target.node, "store"),
                 iter |-> iter.node, body |-> body.node.items,
                 else_ |-> else_.node.items, test |-> test.node,
                 lineno |-> e.token.lineno], else_.pos)

\* one turn of the while loop of parse_if: the If node whose test starts at p
RECURSIVE parse_if_loop(_, _, _)
parse_if_loop(self, p, lineno) ==
    LET test == Invoke("parse_tuple", self, p, <<FALSE, FALSE, FALSE>>)
        body == Invoke("parse_statements", self, test.pos, <<{"elif", "else", "endif"}, FALSE>>)
        token_type == Current(self, body.pos).type
        p1 == Next(self, body.pos)
        else_ == IF token_type = "elif"
                 THEN LET n == parse_if_loop(self, p1, Current(self, p1).lineno)
                      IN  IF ~n.ok THEN n ELSE Ok(PyList(<<n.node>>), n.pos)
                 ELSE IF token_type = "else"
                 THEN Invoke("parse_statements", self, p1, <<{"endif"}, TRUE>>)
                 ELSE Ok(PyList(<<>>), p1)
    IN  IF ~test.ok THEN test
        ELSE IF ~body.ok THEN body
        ELSE IF ~else_.ok THEN else_
        ELSE Ok([kind |-> "If", test |-> test.node, body |-> body.node.items,
                 else_ |-> else_.node.items, lineno |-> lineno], else_.pos)

parse_if(self, p) ==
    LET e == Expect(self, p, "if")
    IN  IF ~e.ok THEN Fail(e) ELSE parse_if_loop(self, e.pos, e.token.lineno)

parse_block(self, p) ==
    LET e == Expect(self, p, "block")
        n == Expect(self, e.pos, "name")
        body == Invoke("parse_statements", self, n.pos, <<{"endblock"}, TRUE>>)
    IN  IF ~e.ok THEN Fail(e)
        ELSE IF ~n.ok THEN Fail(n)
        ELSE IF ~body.ok THEN body
        ELSE Ok([kind |-> "Block", name |-> n.token.value,
                 body |-> body.node.items, lineno |-> e.token.lineno], body.pos)

parse_call_block(self, p) ==
    LET e == Expect(self, p, "call")
        sig == IF Current(self, e.pos).type = "lparen"
               THEN Invoke("parse_signature", self, e.pos, <<>>)
               ELSE Ok([kind |-> "signature", args |-> <<>>, defaults |-> <<>>], e.pos)
        call == Invoke("parse_expression", self, sig.pos, <<FALSE>>)
        body == Invoke("parse_statements", self, call.pos, <<{"endcall"}, TRUE>>)
    IN  IF ~e.ok THEN Fail(e)
        ELSE IF ~sig.ok THEN sig
        ELSE IF ~call.ok THEN call
        ELSE IF call.node.kind # "Call"
        THEN SyntaxError(self, <<"expected call">>, e.token.lineno, call.pos)
        ELSE IF ~body.ok THEN body
        ELSE Ok([kind |-> "CallBlock", args |-> sig.node.args,
                 defaults |-> sig.node.defaults, call |-> call.node,
                 body |-> body.node.items, lineno |-> e.token.lineno], body.pos)

parse_filter_block(self, p) ==
    LET e == Expect(self, p, "filter")
        f == Invoke("parse_filter", self, e.pos, <<NoneNode, TRUE>>)
        body == Invoke("parse_statements", self, f.pos, <<{"endfilter"}, TRUE>>)
    IN  IF ~e.ok THEN Fail(e)
        ELSE IF ~f.ok THEN f
        ELSE IF ~body.ok THEN body
        ELSE Ok([kind |-> "FilterBlock", filter |-> f.node,
                 body |-> body.node.items, lineno |-> e.token.lineno], body.pos)

\* the error of a macro name that can not be assigned to: its message reads
\* node.target (line 246), an attribute a Macro node does not have
macro_name_error(self, token, p) ==
    PyError("AttributeError", <<"'Macro' object has no attribute 'target'">>, p)

parse_macro(self, p) ==
    LET e == Expect(self, p, "macro")
        n == Expect(self, e.pos, "name")
        sig == Invoke("parse_signature", self, n.pos, <<>>)
        body == Invoke("parse_statements", self, sig.pos, <<{"endmacro"}, TRUE>>)
    IN  IF ~e.ok THEN Fail(e)
        ELSE IF ~n.ok THEN Fail(n)
        ELSE IF ~can_assign(Name(n.token.value, "store", NoLine))
        THEN macro_name_error(self, e.token, n.pos)
        ELSE IF ~sig.ok THEN sig
        ELSE IF ~body.ok THEN body
        ELSE Ok([kind |-> "Macro", name |-> n.token.value, args |-> sig.node.args,
                 defaults |-> sig.node.defaults, body |-> body.node.items,
                 lineno |-> e.token.lineno], body.pos)

RECURSIVE parse_print_loop(_, _, _, _)
parse_print_loop(self, p, token, nodes) ==
    LET e == IF nodes # <<>> THEN Expect(self, p, "comma") ELSE Ok(NoneNode, p)
        r == Invoke("parse_expression", self, e.pos, <<FALSE>>)
    IN  IF Current(self, p).type \in statement_end_tokens
        THEN Ok([kind |-> "Output", nodes |-> nodes, lineno |-> token.lineno], p)
        ELSE IF ~e.ok THEN Fail(e)
        ELSE IF ~r.ok THEN r
        ELSE parse_print_loop(self, r.pos, token, Append(nodes, r.node))

parse_print(self, p) ==
    LET e == Expect(self, p, "print")
    IN  IF ~e.ok THEN Fail(e) ELSE parse_print_loop(self, e.pos, e.token, <<>>)

parse_statement(self, p) ==
    LET token == Current(self, p)
        token_type == token.type
        expr == Invoke("parse_tuple", self, p, <<FALSE, FALSE, FALSE>>)
    IN  IF token_type = "for" THEN Invoke("parse_for", self, p, <<>>)
        ELSE IF token_type = "if" THEN Invoke("parse_if", self, p, <<>>)
        ELSE IF token_type = "block" THEN Invoke("parse_block", self, p, <<>>)
        ELSE IF token_type = "extends" THEN Invoke("parse_extends", self, p, <<>>)
        ELSE IF token_type = "print" THEN Invoke("parse_print", self, p, <<>>)
        ELSE IF token_type = "macro" THEN Invoke("parse_macro", self, p, <<>>)
        ELSE IF token_type = "include" THEN Invoke("parse_include", self, p, <<>>)
        ELSE IF token_type = "from" THEN Invoke("parse_from", self, p, <<>>)
        ELSE IF token_type = "import" THEN Invoke("parse_import", self, p, <<>>)
        ELSE IF token_type = "call" THEN Invoke("parse_call_block", self, p, <<>>)
        ELSE IF token_type = "filter" THEN Invoke("parse_filter_block", self, p, <<>>)
        ELSE IF token_type = "name" /\ token.value \in DOMAIN self.extensions
        THEN CallExtension(self, p, self.extensions[token.value])
        ELSE IF ~expr.ok THEN expr
        ELSE IF Current(self, expr.pos).type = "assign"
        THEN Invoke("parse_assign", self, expr.pos, <<expr.node>>)
        ELSE Ok([kind |-> "ExprStmt", node |-> expr.node, lineno |-> token],
                expr.pos)

(***************************************************************************)
(* The template driver                                                     *)
(***************************************************************************)
\* a flush_data that keeps only the fragment buffered last
flush_data_last_only(body, data_buffer) ==
    IF data_buffer # <<>>
    THEN Append(body, [kind |-> "Output",
                       nodes |-> <<data_buffer[Len(data_buffer)]>>,
                       lineno |-> data_buffer[1].lineno])
    ELSE body

\* flush_data() of subparse: the body with the buffered fragments appended
flush_data(body, data_buffer) ==
    IF data_buffer # <<>>
    THEN Append(body, [kind |-> "Output", nodes |-> data_buffer,
                       lineno |-> data_buffer[1].lineno])
    ELSE body

\* body.append(stmt) of subparse (line 691)
body_append(body, stmt) == Append(body, stmt)

RECURSIVE subparse_loop(_, _, _, _, _)
subparse_loop(self, p, end_tokens, body, data_buffer) ==
    LET token == Current(self, p)
        p1 == Next(self, p)
        t == Invoke("parse_tuple", self, p1, <<FALSE, FALSE, FALSE>>)
        v == Expect(self, t.pos, "variable_end")
        flushed == flush_data(body, data_buffer)
        stmt == Invoke("parse_statement", self, p1, <<>>)
        b == Expect(self, stmt.pos, "block_end")
    IN  IF ~HasMore(self, p) THEN Ok(PyList(flushed), p)
        ELSE IF token.type = "data"
        THEN subparse_loop(self, p1, end_tokens, body,
                 IF token.value # ""
                 THEN Append(data_buffer, Const("str", token.value, token.lineno))
                 ELSE data_buffer)
        ELSE IF token.type = "variable_begin"
        THEN IF ~t.ok THEN t
             ELSE IF ~v.ok THEN Fail(v)
             ELSE subparse_loop(self, v.pos, end_tokens, body,
                                Append(data_buffer, t.node))
        ELSE IF token.type = "block_begin"
        THEN IF end_tokens # {} /\ TestMany(Current(self, p1), end_tokens)
             THEN Ok(PyList(flushed), p1)
             ELSE IF ~stmt.ok THEN stmt
             ELSE IF ~b.ok THEN Fail(b)
             ELSE subparse_loop(self, b.pos, end_tokens,
                                body_append(flushed, stmt.node), <<>>)
        ELSE PyError("AssertionError", <<"internal parsing error">>, p)

subparse(self, p, end_tokens) == subparse_loop(self, p, end_tokens, <<>>, <<>>)

\* a parse that returns the Template of what was read before an error
parse_keeps_partial_tree(self, p) ==
    LET r == Invoke("subparse", self, p, <<{}>>)
    IN  Ok([kind |-> "Template",
            body |-> IF r.ok THEN r.node.items ELSE <<>>, lineno |-> 1,
            environment |-> "environment"], r.pos)

parse(self, p) ==
    LET r == Invoke("subparse", self, p, <<{}>>)
    IN  IF ~r.ok THEN r
        ELSE Ok([kind |-> "Template", body |-> r.node.items, lineno |-> 1,
                 environment |-> "environment"], r.pos)

(***************************************************************************)
(* Method dispatch: the call self.method(a...) with the stream at p        *)
(***************************************************************************)
Invoke(method, self, p, a) ==
    CASE method = "parse_statement" -> parse_statement(self, p)
      [] method = "parse_assign" -> parse_assign(self, p, a[1])
      [] method = "parse_statements" -> parse_statements(self, p, a[1], a[2])
      [] method = "parse_for" -> parse_for(self, p)
      [] method = "parse_if" -> parse_if(self, p)
      [] method = "parse_block" -> parse_block(self, p)
      [] method = "parse_extends" -> parse_extends(self, p)
      [] method = "parse_include" -> parse_include(self, p)
      [] method = "parse_import" -> parse_import(self, p)
      [] method = "parse_from" -> parse_from(self, p)
      [] method = "parse_signature" -> parse_signature(self, p)
      [] method = "parse_call_block" -> parse_call_block(self, p)
      [] method = "parse_filter_block" -> parse_filter_block(self, p)
      [] method = "parse_macro" -> parse_macro(self, p)
      [] method = "parse_print" -> parse_print(self, p)
      [] method = "parse_expression" -> parse_expression(self, p, a[1])
      [] method = "parse_condexpr" -> parse_condexpr(self, p)
      [] method = "parse_or" -> parse_or(self, p)
      [] method = "parse_and" -> parse_and(self, p)
      [] method = "parse_compare" -> parse_compare(self, p)
      [] method = "parse_add" -> parse_add(self, p)
      [] method = "parse_sub" -> parse_sub(self, p)
      [] method = "parse_concat" -> parse_concat(self, p)
      [] method = "parse_mul" -> parse_mul(self, p)
      [] method = "parse_div" -> parse_div(self, p)
      [] method = "parse_floordiv" -> parse_floordiv(self, p)
      [] method = "parse_mod" -> parse_mod(self, p)
      [] method = "parse_pow" -> parse_pow(self, p)
      [] method = "parse_unary" -> parse_unary(self, p)
      [] method = "parse_primary" -> parse_primary(self, p, a[1])
      [] method = "parse_tuple" -> parse_tuple(self, p, a[1], a[2], a[3])
      [] method = "parse_list" -> parse_list(self, p)
      [] method = "parse_dict" -> parse_dict(self, p)
      [] method = "parse_postfix" -> parse_postfix(self, p, a[1])
      [] method = "parse_subscript" -> parse_subscript(self, p, a[1])
      [] method = "parse_subscribed" -> parse_subscribed(self, p)
      [] method = "parse_call" -> parse_call(self, p, a[1])
      [] method = "parse_filter" -> parse_filter(self, p, a[1], a[2])
      [] method = "parse_test" -> parse_test(self, p, a[1])
      [] method = "subparse" -> subparse(self, p, a[1])
      [] method = "parse" -> parse(self, p)

(***************************************************************************)
(* The lexer's side: the token streams the parser is run on.  A stream is  *)
(* written as a sequence of symbols; the token at index i is on line i,    *)
(* so a line number names one token.                                       *)
(***************************************************************************)
\* the identifier of the name token at index i: a different one per place
NameAt(i) ==
    CASE i = 1 -> "x1" [] i = 2 -> "x2" [] i = 3 -> "x3" [] i = 4 -> "x4"
      [] i = 5 -> "x5" [] i = 6 -> "x6" [] i = 7 -> "x7" [] i = 8 -> "x8"
      [] i = 9 -> "x9" [] i = 10 -> "x10" [] i = 11 -> "x11" [] OTHER -> "x12"

\* symbols that stand for a name token with that identifier
NameSymbols == {"a", "b", "c", "f", "t", "x", "y", "as", "true", "false", "none",
                "__x", "_x", "tag", "rest"}

\* symbols that stand for a data token with that text ("empty": no text)
DataSymbols == {"hello", "world", "empty"}

Lex(sym, i) ==
    IF sym = "n" THEN Token("name", NameAt(i), i)
    ELSE IF sym \in NameSymbols THEN Token("name", sym, i)
    ELSE IF sym \in {"1", "2", "3", "4"} THEN Token("integer", sym, i)
    ELSE IF sym = "empty" THEN Token("data", "", i)
    ELSE IF sym \in DataSymbols THEN Token("data", sym, i)
    ELSE Token(sym, "", i)

LexAll(syms) == [i \in 1..Len(syms) |-> Lex(syms[i], i)]

\* all sequences over alphabet of length at most n
SeqsUpTo(alphabet, n) == UNION {[1..k -> alphabet] : k \in 0..n}

\* the token types of a stream
Types(s) == [i \in 1..Len(s) |-> s[i].type]

(***************************************************************************)
(* The parser as a state machine: Parser(environment, source, filename)    *)
(* holds the stream; each entry point is called once on it.                *)
(***************************************************************************)
Self == [stream |-> stream, filename |-> filename, extensions |-> extensions]

NoOutcome == Ok(NoneNode, 1)

\* Parser.__init__ on the tokens of symbols, with the registered extensions
Construct(symbols, fname, exts) ==
    /\ stream = LexAll(symbols)
    /\ pos = 1
    /\ filename = fname
    /\ extensions = exts
    /\ pc = "ready"
    /\ outcome = NoOutcome

\* the state after an entry point returned or raised r
Returned(name, r) ==
    /\ pc = "ready"
    /\ pc' = name
    /\ outcome' = r
    /\ pos' = r.pos
    /\ UNCHANGED <<stream, filename, extensions>>

CallParseTuple == Returned("parse_tuple", Invoke("parse_tuple", Self, pos, <<FALSE, FALSE, FALSE>>))

CallParsePrimary == Returned("parse_primary", Invoke("parse_primary", Self, pos, <<TRUE>>))

CallParseExpression == Returned("parse_expression", Invoke("parse_expression", Self, pos, <<FALSE>>))

CallParseCompare == Returned("parse_compare", Invoke("parse_compare", Self, pos, <<>>))

CallParseStatement == Returned("parse_statement", Invoke("parse_statement", Self, pos, <<>>))

CallParse == Returned("parse", Invoke("parse", Self, pos, <<>>))

NoExtensions == [tag \in {} |-> [shape |-> "node", count |-> 1]]

(***************************************************************************)
(* Tuples: parse_tuple and the parenthesised primary                       *)
(***************************************************************************)
MaxTupleLen == 5

TupleAlphabet == {"n", "comma", "lparen", "rparen", "variable_end", "block_end", "in"}

InitTuple ==
    \E syms \in SeqsUpTo(TupleAlphabet, MaxTupleLen) :
        Construct(syms, "t.html", NoExtensions)

NextTuple == CallParseTuple \/ CallParsePrimary

SpecTuple == InitTuple /\ [][NextTuple]_vars

\* the ascending sequence of a finite set of integers
RECURSIVE Ascending(_)
Ascending(S) ==
    IF S = {} THEN <<>>
    ELSE LET m == CHOOSE x \in S : \A y \in S : x <= y
         IN  <<m>> \o Ascending(S \ {m})

\* the number of parentheses open before token i of the stream
Depth(i) ==
    Cardinality({j \in 1..(i - 1) : stream[j].type = "lparen"})
    - Cardinality({j \in 1..(i - 1) : stream[j].type = "rparen"})

\* the commas outside parentheses among the tokens before q
TopCommas(q) ==
    {i \in 1..(q - 1) : stream[i].type = "comma" /\ Depth(i) = 0}

\* the expressions between those commas, each parsed on its own
ElementsBefore(q) ==
    LET starts == Ascending(({1} \cup {c + 1 : c \in TopCommas(q)}) \ {q})
    IN  [i \in 1..Len(starts) |-> Invoke("parse_expression", Self, starts[i], <<FALSE>>).node]

\* C1: parse_tuple in its default mode returns the lone element unwrapped
\* exactly when one element was parsed and no comma followed it, a Tuple of
\* all elements in source order as soon as a comma followed an element
\* (a trailing comma before a terminator included), and an empty Tuple
\* when it starts on a terminator; "(a)" is Name a, "(a,)" a one-element
\* Tuple, "(a, b)" a two-element Tuple and "()" an empty Tuple.
C1_TupleRule ==
    /\ (pc = "parse_tuple" /\ outcome.ok) =>
          LET q == outcome.pos
              elems == ElementsBefore(q)
          IN  /\ Current(Self, 1).type \in _tuple_edge_tokens =>
                    /\ q = 1
                    /\ outcome.node.kind = "Tuple"
                    /\ outcome.node.items = <<>>
              /\ (TopCommas(q) = {} /\ q > 1) =>
                    /\ Len(elems) = 1
                    /\ outcome.node = elems[1]
              /\ TopCommas(q) # {} =>
                    /\ outcome.node.kind = "Tuple"
                    /\ outcome.node.ctx = "load"
                    /\ outcome.node.items = elems
                    /\ Len(elems) >= 1
              /\ (TopCommas(q) = {} /\ q = 1) =>
                    Current(Self, 1).type \in _tuple_edge_tokens
    /\ (pc = "parse_primary" /\ Types(stream) = <<"lparen", "name", "rparen">>) =>
          /\ outcome.ok
          /\ outcome.node = Name(stream[2].value, "load", stream[2].lineno)
    /\ (pc = "parse_primary"
          /\ Types(stream) = <<"lparen", "name", "comma", "rparen">>) =>
          /\ outcome.ok
          /\ outcome.node.kind = "Tuple"
          /\ outcome.node.items = <<Name(stream[2].value, "load", stream[2].lineno)>>
    /\ (pc = "parse_primary"
          /\ Types(stream) = <<"lparen", "name", "comma", "name", "rparen">>) =>
          /\ outcome.ok
          /\ outcome.node.kind = "Tuple"
          /\ outcome.node.items = <<Name(stream[2].value, "load", stream[2].lineno),
                                    Name(stream[4].value, "load", stream[4].lineno)>>
    /\ (pc = "parse_primary" /\ Types(stream) = <<"lparen", "rparen">>) =>
          /\ outcome.ok
          /\ outcome.node.kind = "Tuple"
          /\ outcome.node.items = <<>>

\* parse_tuple returned a two-element Tuple whose last element is followed
\* by a trailing comma and the terminator rparen
C1_Witness ==
    /\ pc = "parse_tuple"
    /\ outcome.ok
    /\ outcome.node.kind = "Tuple"
    /\ Len(outcome.node.items) = 2
    /\ outcome.pos = 5
    /\ stream[4].type = "comma"
    /\ Current(Self, outcome.pos).type = "rparen"

(***************************************************************************)
(* Statements that bind names: one statement in a template, with a hole    *)
(* at the place of the target, the parameters or the imported names        *)
(***************************************************************************)
MaxHoleLen == 3

HoleAlphabet == {"x", "y", "true", "__x", "1", "comma", "lparen", "rparen", "dot",
                 "assign", "as"}

StmtShapes == {"assign", "for", "macro", "macro_name", "call", "import", "from"}

\* the template of a statement shape with the tokens t in its hole
Frame(shape, t) ==
    CASE shape = "assign" -> <<"block_begin">> \o t \o <<"assign", "2", "block_end">>
      [] shape = "for" ->
            <<"block_begin", "for">> \o t
            \o <<"in", "y", "block_end", "hello", "block_begin", "endfor", "block_end">>
      [] shape = "macro" ->
            <<"block_begin", "macro", "f", "lparen">> \o t
            \o <<"rparen", "block_end", "block_begin", "endmacro", "block_end">>
      [] shape = "macro_name" ->
            <<"block_begin", "macro">> \o t
            \o <<"lparen", "rparen", "block_end", "block_begin", "endmacro",
                 "block_end">>
      [] shape = "call" ->
            <<"block_begin", "call", "lparen">> \o t
            \o <<"rparen", "f", "lparen", "rparen", "block_end", "block_begin",
                 "endcall", "block_end">>
      [] shape = "import" ->
            <<"block_begin", "import", "t", "as">> \o t \o <<"block_end">>
      [] shape = "from" ->
            <<"block_begin", "from", "t", "import">> \o t \o <<"block_end">>

InitStmt ==
    \E shape \in StmtShapes, t \in SeqsUpTo(HoleAlphabet, MaxHoleLen) :
        Construct(Frame(shape, t), "t.html", NoExtensions)

NextStmt == CallParse

SpecStmt == InitStmt /\ [][NextStmt]_vars

\* the nodes directly below a node of a tree
Children(n) ==
    CASE n.kind \in {"Or", "And", "Add", "Sub", "Mul", "Div", "FloorDiv", "Mod",
                     "Pow"} -> <<n.left, n.right>>
      [] n.kind \in {"Not", "Neg", "Pos", "ExprStmt"} -> <<n.node>>
      [] n.kind = "Compare" -> <<n.expr>> \o n.ops
      [] n.kind = "Operand" -> <<n.expr>>
      [] n.kind = "CondExpr" -> <<n.test, n.expr1, n.expr2>>
      [] n.kind \in {"Concat", "Output"} -> n.nodes
      [] n.kind \in {"Tuple", "List", "Dict", "list"} -> n.items
      [] n.kind = "Pair" -> <<n.key, n.value>>
      [] n.kind = "Keyword" -> <<n.value>>
      [] n.kind = "Subscript" -> <<n.node, n.arg>>
      [] n.kind = "Slice" -> <<n.start, n.stop, n.step>>
      [] n.kind \in {"Call", "Filter", "Test"} ->
            <<n.node>> \o n.args \o n.kwargs \o <<n.dyn_args, n.dyn_kwargs>>
      [] n.kind = "Assign" -> <<n.target, n.node>>
      [] n.kind = "For" -> <<n.target, n.iter, n.test>> \o n.body \o n.else_
      [] n.kind = "If" -> <<n.test>> \o n.body \o n.else_
      [] n.kind \in {"Block", "Template"} -> n.body
      [] n.kind = "Macro" -> n.args \o n.defaults \o n.body
      [] n.kind = "CallBlock" -> n.args \o n.defaults \o <<n.call>> \o n.body
      [] n.kind = "FilterBlock" -> <<n.filter>> \o n.body
      [] n.kind \in {"Extends", "Include", "Import", "FromImport"} -> <<n.template>>
      [] OTHER -> <<>>

\* all nodes of a tree
RECURSIVE NodesOf(_)
NodesOf(n) ==
    {n} \cup UNION {NodesOf(Children(n)[i]) : i \in 1..Len(Children(n))}

\* the nodes of a tree that carry the store or the param context
Binders(n) ==
    {m \in NodesOf(n) : /\ m.kind \in {"Name", "Tuple", "Subscript"}
                        /\ m.ctx \in {"store", "param"}}

\* what parse_tuple reads as a target at token i of the stream
TargetAt(i, simplified) == Invoke("parse_tuple", Self, i, <<FALSE, simplified, FALSE>>)

\* the template puts a form that can not be assigned to where an assignment
\* (first disjunct), a for loop (second) or a macro or call block signature
\* (third, fourth) binds: a literal, or a name among true, false and none
NonAssignableUse ==
    \/ /\ TargetAt(2, FALSE).ok
       /\ Current(Self, TargetAt(2, FALSE).pos).type = "assign"
       /\ ~can_assign(TargetAt(2, FALSE).node)
    \/ /\ stream[2].type = "for"
       /\ TargetAt(3, TRUE).ok
       /\ ~can_assign(TargetAt(3, TRUE).node)
    \/ /\ stream[2].type = "macro"
       /\ \E i \in 5..Len(stream) :
            /\ stream[i].type = "name" /\ stream[i].value \in {"true", "false", "none"}
            /\ stream[i - 1].type \in {"lparen", "comma"}
            /\ \A j \in 5..(i - 1) : stream[j].type \in {"name", "comma"}
    \/ /\ stream[2].type = "call"
       /\ stream[3].type = "lparen"
       /\ stream[4].type = "name" /\ stream[4].value \in {"true", "false", "none"}

\* C2: in every tree parse returns, each node with the store or the param
\* context satisfies can_assign; a template that uses a form that can not
\* be assigned to (as "1 = 2", or a target with true, false or none in it)
\* as assignment target, for target or parameter yields no tree; and
\* "x = 2" yields an Assign whose target is Name x in store context.
C2_StoreOnlyAfterCanAssign ==
    /\ (pc = "parse" /\ outcome.ok) =>
          \A m \in Binders(outcome.node) : can_assign(m)
    /\ (pc = "parse" /\ NonAssignableUse) => ~outcome.ok
    /\ (pc = "parse" /\ stream = LexAll(Frame("assign", <<"x">>))) =>
          /\ outcome.ok
          /\ Len(outcome.node.body) = 1
          /\ outcome.node.body[1].kind = "Assign"
          /\ outcome.node.body[1].target = Name("x", "store", 2)
          /\ outcome.node.body[1].node = Const("int", "2", 4)

\* parse returned a for loop whose target is a tuple in store context, its
\* elements in store context too
C2_Witness ==
    /\ pc = "parse"
    /\ outcome.ok
    /\ outcome.node.body[1].kind = "For"
    /\ outcome.node.body[1].target.kind = "Tuple"
    /\ outcome.node.body[1].target.ctx = "store"
    /\ Len(outcome.node.body[1].target.items) = 2
    /\ \A i \in 1..2 : outcome.node.body[1].target.items[i].ctx = "store"

(***************************************************************************)
(* Calls: f(arguments), the arguments drawn by kind                        *)
(***************************************************************************)
MaxArgs == 4

ArgKinds == {"positional", "keyword", "star", "double_star"}

ArgExprs == {"1", "x"}

\* the tokens of one argument of a kind with the expression token e
ArgTokens(kind, e) ==
    CASE kind = "positional" -> <<e>>
      [] kind = "keyword" -> <<"a", "assign", e>>
      [] kind = "star" -> <<"mul", e>>
      [] kind = "double_star" -> <<"pow", e>>

\* the arguments i.. of a list, a comma after each but the last
RECURSIVE ArgList(_, _, _)
ArgList(kinds, exprs, i) ==
    IF i > Len(kinds) THEN <<>>
    ELSE ArgTokens(kinds[i], exprs[i])
         \o (IF i < Len(kinds) THEN <<"comma">> ELSE <<>>)
         \o ArgList(kinds, exprs, i + 1)

CallTokens(kinds, exprs, trailing) ==
    <<"f", "lparen">> \o ArgList(kinds, exprs, 1)
    \o (IF trailing THEN <<"comma">> ELSE <<>>) \o <<"rparen">>

InitCall ==
    \E n \in 0..MaxArgs :
        \E kinds \in [1..n -> ArgKinds], exprs \in [1..n -> ArgExprs],
           trailing \in BOOLEAN :
            /\ trailing => n > 0
            /\ Construct(CallTokens(kinds, exprs, trailing), "t.html", NoExtensions)

NextCall == CallParseExpression

SpecCall == InitCall /\ [][NextCall]_vars

\* the kinds of the arguments written from token i of the stream on, each
\* argument expression being one token
RECURSIVE KindsFrom(_)
KindsFrom(i) ==
    IF i > Len(stream) \/ stream[i].type = "rparen" THEN <<>>
    ELSE IF stream[i].type = "comma" THEN KindsFrom(i + 1)
    ELSE IF stream[i].type = "mul" THEN <<"star">> \o KindsFrom(i + 2)
    ELSE IF stream[i].type = "pow" THEN <<"double_star">> \o KindsFrom(i + 2)
    ELSE IF stream[i].type = "name" /\ i < Len(stream) /\ stream[i + 1].type = "assign"
    THEN <<"keyword">> \o KindsFrom(i + 3)
    ELSE <<"positional">> \o KindsFrom(i + 1)

\* positional arguments, then keyword arguments, then at most one * argument,
\* then at most one ** argument
ValidShape(kinds) ==
    LET rank(k) == CASE k = "positional" -> 1 [] k = "keyword" -> 2
                     [] k = "star" -> 3 [] k = "double_star" -> 4
    IN  /\ \A i, j \in 1..Len(kinds) : i < j => rank(kinds[i]) <= rank(kinds[j])
        /\ Cardinality({i \in 1..Len(kinds) : kinds[i] = "star"}) <= 1
        /\ Cardinality({i \in 1..Len(kinds) : kinds[i] = "double_star"}) <= 1

\* how many arguments of a kind a list has
CountKind(kinds, k) == Cardinality({i \in 1..Len(kinds) : kinds[i] = k})

\* C3: parse_call accepts an argument list exactly when it is positional
\* arguments, then keyword arguments, then at most one * argument, then at
\* most one ** argument, with an optional trailing comma; any other order
\* fails with the syntax error "invalid syntax for function call
\* expression" at the line of the opening parenthesis; f(1, 2, a=3, *rest)
\* parses, f(a=1, 2) and f(*a, *b) fail.
C3_CallArgumentShape ==
    /\ pc = "parse_expression" =>
          LET kinds == KindsFrom(3)
          IN  /\ outcome.ok <=> ValidShape(kinds)
              /\ outcome.ok =>
                    /\ outcome.node.kind = "Call"
                    /\ outcome.pos = Len(stream) + 1
                    /\ Len(outcome.node.args) = CountKind(kinds, "positional")
                    /\ Len(outcome.node.kwargs) = CountKind(kinds, "keyword")
                    /\ (outcome.node.dyn_args # NoneNode)
                          <=> CountKind(kinds, "star") = 1
                    /\ (outcome.node.dyn_kwargs # NoneNode)
                          <=> CountKind(kinds, "double_star") = 1
              /\ ~outcome.ok =>
                    outcome.err =
                        [kind |-> "TemplateSyntaxError",
                         msg |-> <<"invalid syntax for function call expression">>,
                         lineno |-> stream[2].lineno,
                         filename |-> filename]
    /\ (pc = "parse_expression"
          /\ Types(stream) = <<"name", "lparen", "integer", "comma", "integer",
                               "comma", "name", "assign", "integer", "comma",
                               "mul", "name", "rparen">>) => outcome.ok
    /\ (pc = "parse_expression"
          /\ Types(stream) = <<"name", "lparen", "name", "assign", "integer",
                               "comma", "integer", "rparen">>) => ~outcome.ok
    /\ (pc = "parse_expression"
          /\ Types(stream) = <<"name", "lparen", "mul", "name", "comma", "mul",
                               "name", "rparen">>) => ~outcome.ok

\* parse_expression refused a call whose positional argument follows a
\* keyword argument, two lines below the opening parenthesis or further
C3_Witness ==
    /\ pc = "parse_expression"
    /\ ~outcome.ok
    /\ KindsFrom(3) = <<"positional", "keyword", "positional">>
    /\ outcome.pos > 3
    /\ outcome.err.lineno = stream[2].lineno

(***************************************************************************)
(* Expressions without parentheses: operands joined by operators           *)
(***************************************************************************)
MaxOperands == 3

\* the operator tokens of the binary levels, loosest first
BinaryOperators == <<"or", "and", "add", "sub", "tilde", "mul", "div", "floordiv",
                     "mod", "pow">>

\* the node each of them builds
BinaryKinds == <<"Or", "And", "Add", "Sub", "Concat", "Mul", "Div", "FloorDiv",
                 "Mod", "Pow">>

\* the operators an expression is written with; notin is the two tokens not in
Operators ==
    {BinaryOperators[i] : i \in 1..Len(BinaryOperators)} \cup _compare_operators
    \cup {"notin"}

OperatorTokens(op) == IF op = "notin" THEN <<"not", "in">> ELSE <<op>>

\* the operand at place i: a name at the odd places, an integer literal at
\* the even ones
OperandAt(i) == <<"a", "2", "c", "4", "x">>[i]

\* what may follow the chain of operands
Tails == {<<>>, <<"not", "y">>, <<"if", "t", "else", "y">>}

\* operand i.. of a chain with the operators before them; the operand at
\* place at carries the unary prefix
RECURSIVE ChainFrom(_, _, _, _, _)
ChainFrom(n, ops, at, prefix, i) ==
    IF i > n THEN <<>>
    ELSE (IF i > 1 THEN OperatorTokens(ops[i - 1]) ELSE <<>>)
         \o (IF i = at THEN <<prefix>> ELSE <<>>)
         \o <<OperandAt(i)>>
         \o ChainFrom(n, ops, at, prefix, i + 1)

InitExpr ==
    \E n \in 1..MaxOperands :
        \E ops \in [1..(n - 1) -> Operators], at \in 0..n,
           prefix \in {"not", "sub"}, tail \in Tails :
            Construct(ChainFrom(n, ops, at, prefix, 1) \o tail,
                      "t.html", NoExtensions)

NextExpr == CallParseExpression \/ CallParseCompare

SpecExpr == InitExpr /\ [][NextExpr]_vars

\* the node is the operand written at place i
IsOperand(node, i) ==
    CASE node.kind = "Name" -> node.name = OperandAt(i)
      [] node.kind = "Const" -> node.value = OperandAt(i)
      [] OTHER -> FALSE

\* the node is Op(...Op(Op(x1, x2), x3)..., xn) for the operands at 1..n
\* (a Concat node of two operands counts as the binary node of the two)
RECURSIVE IsLeftChain(_, _, _)
IsLeftChain(node, kind, n) ==
    IF n = 1 THEN IsOperand(node, 1)
    ELSE /\ node.kind = kind
         /\ IF kind = "Concat"
            THEN /\ Len(node.nodes) = 2
                 /\ IsOperand(node.nodes[2], n)
                 /\ IsLeftChain(node.nodes[1], kind, n - 1)
            ELSE /\ IsOperand(node.right, n)
                 /\ IsLeftChain(node.left, kind, n - 1)

\* the stream is x1 op x2 op ... op xn for the operator k, n operands
IsChainOf(k, n) ==
    /\ Len(stream) = 2 * n - 1
    /\ \A i \in 1..Len(stream) :
          IF i % 2 = 1 THEN stream[i].type \in {"name", "integer"}
          ELSE stream[i].type = BinaryOperators[k]

\* C4 as stated: a chain of n >= 2 operands of any one binary operator,
\* concat among them, parses to the left-leaning chain of binary nodes
C4_LeftLeaningAllLevels ==
    \A k \in 1..Len(BinaryOperators), n \in 2..(MaxOperands + 1) :
        (pc = "parse_expression" /\ IsChainOf(k, n)) =>
            /\ outcome.ok
            /\ IsLeftChain(outcome.node, BinaryKinds[k], n)

\* C4, amended: a chain x1 op x2 op ... op xn, n >= 2, of one operator among
\* or, and, add, sub, mul, div, floordiv, mod and pow parses to the
\* left-leaning chain Op(...Op(Op(x1, x2), x3)..., xn), so 2 ** 3 ** 2 is
\* Pow(Pow(2, 3), 2); a chain of concat operators parses to one Concat node
\* that holds x1 .. xn in order
C4_LeftLeaningButConcat ==
    \A k \in 1..Len(BinaryOperators), n \in 2..(MaxOperands + 1) :
        (pc = "parse_expression" /\ IsChainOf(k, n)) =>
            /\ outcome.ok
            /\ outcome.pos = Len(stream) + 1
            /\ IF BinaryOperators[k] = "tilde"
               THEN /\ outcome.node.kind = "Concat"
                    /\ Len(outcome.node.nodes) = n
                    /\ \A i \in 1..n : IsOperand(outcome.node.nodes[i], i)
               ELSE IsLeftChain(outcome.node, BinaryKinds[k], n)

\* parse_expression read a pow b pow c and returned Pow(Pow(a, b), c)
C4_Witness ==
    /\ pc = "parse_expression"
    /\ Types(stream) = <<"name", "pow", "integer", "pow", "name">>
    /\ outcome.ok
    /\ outcome.node.kind = "Pow"
    /\ outcome.node.left.kind = "Pow"
    /\ IsOperand(outcome.node.right, 3)

\* the precedence level of the operator at the root of a node: 1 is the
\* loosest, the conditional; 13 the unary operators; 14 a primary
Level(node) ==
    CASE node.kind = "CondExpr" -> 1
      [] node.kind = "Or" -> 2
      [] node.kind = "And" -> 3
      [] node.kind = "Compare" -> 4
      [] node.kind = "Add" -> 5
      [] node.kind = "Sub" -> 6
      [] node.kind = "Concat" -> 7
      [] node.kind = "Mul" -> 8
      [] node.kind = "Div" -> 9
      [] node.kind = "FloorDiv" -> 10
      [] node.kind = "Mod" -> 11
      [] node.kind = "Pow" -> 12
      [] node.kind \in {"Not", "Neg", "Pos"} -> 13
      [] OTHER -> 14

\* the first operand of a node of a binary level
LeftOperand(node) ==
    CASE node.kind = "Compare" -> node.expr
      [] node.kind = "Concat" -> node.nodes[1]
      [] OTHER -> node.left

\* the operands after the first
RightOperands(node) ==
    CASE node.kind = "Compare" ->
            {node.ops[i].expr : i \in 1..Len(node.ops)}
      [] node.kind = "Concat" -> {node.nodes[i] : i \in 2..Len(node.nodes)}
      [] OTHER -> {node.right}

\* C5: the levels are ordered conditional, or, and, comparison, add, sub,
\* concat, mul, div, floordiv, mod, pow, unary, primary, loosest first; in an
\* expression without parentheses a right operand never has an operator of
\* the same or a looser level at its root, a left operand never a strictly
\* looser one; 2 + 3 * 4 is Add(2, Mul(3, 4)), a - b + c is
\* Add(Sub(a, b), c), a + b - c is Add(a, Sub(b, c)) and a * b / c is
\* Mul(a, Div(b, c)).
C5_PrecedenceOrder ==
    /\ (pc = "parse_expression" /\ outcome.ok) =>
          \A m \in NodesOf(outcome.node) :
              Level(m) \in 2..12 =>
                  /\ Level(LeftOperand(m)) >= Level(m)
                  /\ \A r \in RightOperands(m) : Level(r) > Level(m)
    /\ (pc = "parse_expression"
          /\ Types(stream) = <<"name", "add", "integer", "mul", "name">>) =>
          /\ outcome.ok
          /\ outcome.node.kind = "Add"
          /\ IsOperand(outcome.node.left, 1)
          /\ outcome.node.right.kind = "Mul"
          /\ IsOperand(outcome.node.right.left, 2)
          /\ IsOperand(outcome.node.right.right, 3)
    /\ (pc = "parse_expression"
          /\ Types(stream) = <<"name", "sub", "integer", "add", "name">>) =>
          /\ outcome.ok
          /\ outcome.node.kind = "Add"
          /\ outcome.node.left.kind = "Sub"
          /\ IsOperand(outcome.node.left.left, 1)
          /\ IsOperand(outcome.node.left.right, 2)
          /\ IsOperand(outcome.node.right, 3)
    /\ (pc = "parse_expression"
          /\ Types(stream) = <<"name", "add", "integer", "sub", "name">>) =>
          /\ outcome.ok
          /\ outcome.node.kind = "Add"
          /\ IsOperand(outcome.node.left, 1)
          /\ outcome.node.right.kind = "Sub"
          /\ IsOperand(outcome.node.right.left, 2)
          /\ IsOperand(outcome.node.right.right, 3)
    /\ (pc = "parse_expression"
          /\ Types(stream) = <<"name", "mul", "integer", "div", "name">>) =>
          /\ outcome.ok
          /\ outcome.node.kind = "Mul"
          /\ IsOperand(outcome.node.left, 1)
          /\ outcome.node.right.kind = "Div"
          /\ IsOperand(outcome.node.right.left, 2)
          /\ IsOperand(outcome.node.right.right, 3)

\* parse_expression read a mul 2 add c and returned Add(Mul(a, 2), c): the
\* looser operator written second is the root
C5_Witness ==
    /\ pc = "parse_expression"
    /\ Types(stream) = <<"name", "mul", "integer", "add", "name">>
    /\ outcome.ok
    /\ outcome.node.kind = "Add"
    /\ outcome.node.left.kind = "Mul"
    /\ IsOperand(outcome.node.right, 3)

\* the places among the tokens before q that hold a comparison operator
\* (for not in, the place of in)
ComparePlaces(q) ==
    {i \in 1..(q - 1) : stream[i].type \in _compare_operators}

\* the operator written at such a place: in after not is notin
CompareAt(i) ==
    IF stream[i].type = "in" /\ i > 1 /\ stream[i - 1].type = "not"
    THEN "notin" ELSE stream[i].type

\* the additive expression that starts at token i
AdditiveAt(i) == Invoke("parse_add", Self, i, <<>>).node

\* C6: parse_compare parses one additive expression and then collects every
\* following pair of an operator among eq, ne, lt, lteq, gt, gteq, in and
\* not in (recorded as notin) and an additive operand; with no pair it
\* returns the bare expression, otherwise one Compare node with the pairs in
\* source order, never nested Compare or And nodes, so a < b <= c is
\* Compare(a, [(lt, b), (lteq, c)]); a not that is not followed by in ends
\* the collection and is not consumed.
C6_CompareChain ==
    /\ (pc = "parse_compare" /\ outcome.ok) =>
          LET places == Ascending(ComparePlaces(outcome.pos))
              node == outcome.node
              after == outcome.pos
          IN  /\ IF places = <<>>
                 THEN node = AdditiveAt(1) /\ node.kind # "Compare"
                 ELSE /\ node.kind = "Compare"
                      /\ node.expr = AdditiveAt(1)
                      /\ Len(node.ops) = Len(places)
                      /\ \A i \in 1..Len(places) :
                            /\ node.ops[i].op = CompareAt(places[i])
                            /\ node.ops[i].expr = AdditiveAt(places[i] + 1)
                      /\ \A m \in NodesOf(node) \ {node} :
                            m.kind \notin {"Compare", "And", "Or"}
              /\ after <= Len(stream) =>
                    /\ stream[after].type \notin _compare_operators
                    /\ stream[after].type = "not" =>
                          (after = Len(stream) \/ stream[after + 1].type # "in")
              /\ \A i \in 2..(after - 1) :
                    (stream[i].type = "not"
                        /\ stream[i - 1].type \in {"name", "integer"})
                    => stream[i + 1].type = "in"
    /\ (pc = "parse_compare"
          /\ Types(stream) = <<"name", "lt", "integer", "lteq", "name">>) =>
          /\ outcome.ok
          /\ outcome.node.kind = "Compare"
          /\ IsOperand(outcome.node.expr, 1)
          /\ Len(outcome.node.ops) = 2
          /\ outcome.node.ops[1].op = "lt"
          /\ IsOperand(outcome.node.ops[1].expr, 2)
          /\ outcome.node.ops[2].op = "lteq"
          /\ IsOperand(outcome.node.ops[2].expr, 3)

\* parse_compare read a not in 2 lt c not y: it returned one Compare node
\* with the pairs notin and lt and stopped at the not before y
C6_Witness ==
    /\ pc = "parse_compare"
    /\ Types(stream) = <<"name", "not", "in", "integer", "lt", "name", "not", "name">>
    /\ outcome.ok
    /\ outcome.pos = 7
    /\ outcome.node.kind = "Compare"
    /\ Len(outcome.node.ops) = 2
    /\ outcome.node.ops[1].op = "notin"

(***************************************************************************)
(* Import names and binder positions, on the statements of SpecStmt        *)
(***************************************************************************)
\* the template is from t import N ... with a first name N that starts with
\* two underscores
ReservedImportName ==
    /\ Len(stream) >= 5
    /\ stream[2].type = "from"
    /\ stream[4].type = "import"
    /\ stream[5].type = "name"
    /\ StartsWith(stream[5].value, <<"_", "_">>)

\* C7: a from-import name that starts with two underscores, as in
\* from t import __x, makes parse fail with the reserved-name error, an
\* error of the assertion kind with message, line and filename, and with no
\* other kind of error.
C7_ReservedNameAssertion ==
    (pc = "parse" /\ ReservedImportName) =>
        /\ ~outcome.ok
        /\ outcome.err.kind = "TemplateAssertionError"
        /\ outcome.err.msg # <<>>
        /\ outcome.err.filename = filename

\* the token at place i is a name that can not be assigned to
ReservedAt(i) ==
    /\ i <= Len(stream)
    /\ stream[i].type = "name"
    /\ ~can_assign(Name(stream[i].value, "store", NoLine))

\* the template puts such a name where a macro is named, where an import
\* binds the template, or where a from-import names an object or its alias
ReservedBinderName ==
    \/ stream[2].type = "macro" /\ ReservedAt(3)
    \/ stream[2].type = "import" /\ ReservedAt(5)
    \/ stream[2].type = "from" /\ ReservedAt(5)
    \/ /\ stream[2].type = "from"
       /\ Len(stream) >= 7
       /\ stream[5].type = "name" /\ ~ReservedAt(5)
       /\ ~StartsWith(stream[5].value, <<"_", "_">>)
       /\ Test(stream[6], "name:as")
       /\ ReservedAt(7)

\* C9: an expression that can not be assigned to, used as for target,
\* assignment left side, macro name, macro or call block parameter, import
\* binder or from-import name or alias, makes parse fail with a
\* TemplateSyntaxError and with no other kind of failure.
C9_SyntaxErrorAtEveryBinder ==
    (pc = "parse" /\ (NonAssignableUse \/ ReservedBinderName)) =>
        /\ ~outcome.ok
        /\ outcome.err.kind = "TemplateSyntaxError"
        /\ outcome.err.msg # <<>>
        /\ outcome.err.filename = filename

(***************************************************************************)
(* Bracket subscripts: a[ ... ]                                            *)
(***************************************************************************)
MaxIndexLen == 4

IndexAlphabet == {"1", "x", "comma", "colon"}

InitSubscript ==
    \E t \in SeqsUpTo(IndexAlphabet, MaxIndexLen) :
        Construct(<<"a", "lbracket">> \o t \o <<"rbracket">>, "t.html", NoExtensions)

NextSubscript == CallParseExpression \/ CallParsePrimary

SpecSubscript == InitSubscript /\ [][NextSubscript]_vars

\* the places where the elements between the brackets start: after the
\* opening bracket and after every comma
ElementStarts ==
    <<3>> \o Ascending({i + 1 : i \in {j \in 3..(Len(stream) - 1) :
                                          stream[j].type = "comma"}})

\* the places where they end: at every comma and at the closing bracket
ElementEnds ==
    Ascending({j \in 3..Len(stream) : stream[j].type \in {"comma", "rbracket"}})

\* the element that starts at token i, as parse_subscribed reads it
SubscribedAt(i) == Invoke("parse_subscribed", Self, i, <<>>)

\* every element between the brackets is an expression or a slice
ElementsWellFormed ==
    \A i \in 1..Len(ElementStarts) :
        /\ SubscribedAt(ElementStarts[i]).ok
        /\ SubscribedAt(ElementStarts[i]).pos = ElementEnds[i]

\* C8: for a bracket subscript obj[e1, ..., en] parse_subscript returns a
\* Subscript node on obj whose index is the element itself when the bracket
\* holds one element (an expression or a Slice) and a Tuple node of the
\* elements in source order when it holds more than one; a[1, 2] parses to
\* Subscript(a, Tuple(1, 2)).
C8_SubscriptIndex ==
    (pc = "parse_expression" /\ ElementsWellFormed) =>
        /\ outcome.ok
        /\ outcome.pos = Len(stream) + 1
        /\ outcome.node.kind = "Subscript"
        /\ outcome.node.node = Name("a", "load", 1)
        /\ IF Len(ElementStarts) = 1
           THEN outcome.node.arg = SubscribedAt(3).node
           ELSE /\ outcome.node.arg.kind = "Tuple"
                /\ Len(outcome.node.arg.items) = Len(ElementStarts)
                /\ \A i \in 1..Len(ElementStarts) :
                      outcome.node.arg.items[i] = SubscribedAt(ElementStarts[i]).node

(***************************************************************************)
(* Templates with an extension tag                                         *)
(***************************************************************************)
MaxItems == 3

MaxReturned == 2

ItemKinds == {"data", "print", "assign", "tag"}

\* the tokens of one item of a template
ItemTokens(kind) ==
    CASE kind = "data" -> <<"hello">>
      [] kind = "print" -> <<"variable_begin", "x", "variable_end">>
      [] kind = "assign" -> <<"block_begin", "x", "assign", "1", "block_end">>
      [] kind = "tag" -> <<"block_begin", "tag", "block_end">>

RECURSIVE TemplateTokens(_, _)
TemplateTokens(items, i) ==
    IF i > Len(items) THEN <<>>
    ELSE ItemTokens(items[i]) \o TemplateTokens(items, i + 1)

\* what the callback registered for tag returns: one node, or a list of
\* one or more nodes
Callbacks ==
    {[shape |-> "node", count |-> 1]}
    \cup {[shape |-> "list", count |-> k] : k \in 1..MaxReturned}

InitExt ==
    \E items \in SeqsUpTo(ItemKinds, MaxItems), cb \in Callbacks :
        Construct(TemplateTokens(items, 1), "t.html", [tag \in {"tag"} |-> cb])

NextExt == CallParse

SpecExt == InitExt /\ [][NextExt]_vars

\* the places of the extension tags in the stream, in order
TagPlaces ==
    Ascending({i \in 2..Len(stream) :
                  /\ stream[i - 1].type = "block_begin"
                  /\ stream[i].type = "name"
                  /\ stream[i].value \in DOMAIN extensions})

\* the places of the other statements and of the first token of every run
\* of data and print items
OtherPlaces ==
    {i \in 2..Len(stream) : stream[i].type = "assign"}
    \cup {i \in 1..Len(stream) :
             /\ stream[i].type \in {"data", "variable_begin"}
             /\ (i = 1 \/ stream[i - 1].type = "block_end")}

\* the nodes the callback returns for the tag at place i
RECURSIVE ReturnedNodes(_, _)
ReturnedNodes(i, k) ==
    IF k = 0 THEN <<>>
    ELSE Append(ReturnedNodes(i, k - 1), ExtNode(stream[i].value, k, i))

\* the nodes returned for the tags from the j-th on, one after the other
RECURSIVE ReturnedFrom(_)
ReturnedFrom(j) ==
    IF j > Len(TagPlaces) THEN <<>>
    ELSE ReturnedNodes(TagPlaces[j], extensions[stream[TagPlaces[j]].value].count)
         \o ReturnedFrom(j + 1)

IsExtNode(n) == n.kind = "ExtNode"

\* C10: when parse_statement sees a name that is a registered extension
\* tag it calls the callback, and every statement node the callback returns
\* becomes an element of its own of the enclosing body, in order, at the
\* position of the tag: a returned list of k nodes adds k elements to the
\* body and no nested list.
C10_ExtensionSpliced ==
    pc = "parse" =>
        /\ outcome.ok
        /\ \A i \in 1..Len(outcome.node.body) : outcome.node.body[i].kind # "list"
        /\ SelectSeq(outcome.node.body, IsExtNode) = ReturnedFrom(1)
        /\ Len(outcome.node.body) = Len(ReturnedFrom(1)) + Cardinality(OtherPlaces)
        /\ \A i, j \in 1..Len(outcome.node.body) :
              i < j => outcome.node.body[i].lineno <= outcome.node.body[j].lineno

(***************************************************************************)
(* Filter and test chains: x | a is b ..., and the filter block            *)
(***************************************************************************)
MaxPostfix == 3

PostfixKinds == {"filter", "filter_args", "test", "not_test"}

\* the tokens of the i-th filter or test of a chain, named by its place
PostfixTokens(kind, i) ==
    LET name == <<"a", "b", "c", "f", "t">>[i]
    IN  CASE kind = "filter" -> <<"pipe", name>>
          [] kind = "filter_args" -> <<"pipe", name, "lparen", "1", "rparen">>
          [] kind = "test" -> <<"is", name>>
          [] kind = "not_test" -> <<"is", "not", name>>

RECURSIVE PostfixChain(_, _)
PostfixChain(kinds, i) ==
    IF i > Len(kinds) THEN <<>>
    ELSE PostfixTokens(kinds[i], i) \o PostfixChain(kinds, i + 1)

\* the chain after the name x, or inline in a filter block (the first pipe
\* is not written there)
PostfixFrame(block, chain) ==
    IF block
    THEN <<"block_begin", "filter">> \o Tail(chain)
         \o <<"block_end", "hello", "block_begin", "endfilter", "block_end">>
    ELSE <<"x">> \o chain

InitPostfix ==
    \E kinds \in SeqsUpTo(PostfixKinds, MaxPostfix), block \in BOOLEAN :
        /\ block => (kinds # <<>> /\ kinds[1] \in {"filter", "filter_args"})
        /\ Construct(PostfixFrame(block, PostfixChain(kinds, 1)), "t.html",
                     NoExtensions)

NextPostfix == CallParseExpression \/ CallParse

SpecPostfix == InitPostfix /\ [][NextPostfix]_vars

\* the type of the token at place i, eof beyond the stream
TypeAt(i) == IF i <= Len(stream) THEN stream[i].type ELSE "eof"

\* the filters and tests written from place i on; inline: the filter at i
\* is written without its pipe
RECURSIVE WrittenFrom(_, _)
WrittenFrom(i, inline) ==
    LET n == IF inline THEN i ELSE i + 1
    IN  IF (inline \/ TypeAt(i) = "pipe") /\ TypeAt(n) = "name"
        THEN <<[kind |-> "Filter", name |-> stream[n].value,
                args |-> TypeAt(n + 1) = "lparen", negated |-> FALSE]>>
             \o WrittenFrom(IF TypeAt(n + 1) = "lparen" THEN n + 4 ELSE n + 1, FALSE)
        ELSE IF ~inline /\ TypeAt(i) = "is" /\ TypeAt(i + 1) = "not"
                /\ TypeAt(i + 2) = "name"
        THEN <<[kind |-> "Test", name |-> stream[i + 2].value, args |-> FALSE,
                negated |-> TRUE]>> \o WrittenFrom(i + 3, FALSE)
        ELSE IF ~inline /\ TypeAt(i) = "is" /\ TypeAt(i + 1) = "name"
        THEN <<[kind |-> "Test", name |-> stream[i + 1].value, args |-> FALSE,
                negated |-> FALSE]>> \o WrittenFrom(i + 2, FALSE)
        ELSE <<>>

\* node is the input wrapped by the first k of the written filters and
\* tests, the k-th outermost; a negated test is Not around the Test node
RECURSIVE IsWrapped(_, _, _, _)
IsWrapped(node, input, written, k) ==
    IF k = 0 THEN node = input
    ELSE LET w == written[k]
             inner == IF w.negated THEN node.node ELSE node
         IN  /\ w.negated => node.kind = "Not"
             /\ inner.kind = w.kind
             /\ inner.name = w.name
             /\ inner.kwargs = <<>>
             /\ inner.dyn_args = NoneNode
             /\ inner.dyn_kwargs = NoneNode
             /\ IF w.args
                THEN Len(inner.args) = 1 /\ inner.args[1].kind = "Const"
                     /\ inner.args[1].value = "1"
                ELSE inner.args = <<>>
             /\ IsWrapped(inner.node, input, written, k - 1)

\* C11: every | name or | name(args) wraps the result so far as the input
\* of a new Filter node, so x | a | b(1) is Filter(Filter(x, a), b, [1]);
\* x is name is Test(x, name) and x is not name is Not(Test(x, name)), the
\* negation around the Test node and never around its input; the inline
\* chain of a filter block starts with a Filter whose input is none.
C11_FilterTestChain ==
    /\ (pc = "parse_expression" /\ TypeAt(1) = "name") =>
          /\ outcome.ok
          /\ outcome.pos = Len(stream) + 1
          /\ IsWrapped(outcome.node, Name("x", "load", 1), WrittenFrom(2, FALSE),
                       Len(WrittenFrom(2, FALSE)))
    /\ (pc = "parse" /\ TypeAt(2) = "filter" /\ outcome.ok) =>
          /\ Len(outcome.node.body) = 1
          /\ outcome.node.body[1].kind = "FilterBlock"
          /\ Len(WrittenFrom(3, TRUE)) >= 1
          /\ IsWrapped(outcome.node.body[1].filter, NoneNode, WrittenFrom(3, TRUE),
                       Len(WrittenFrom(3, TRUE)))
    /\ (pc = "parse_expression"
          /\ Types(stream) = <<"name", "pipe", "name", "pipe", "name", "lparen",
                               "integer", "rparen">>) =>
          /\ outcome.node.kind = "Filter" /\ outcome.node.name = "b"
          /\ outcome.node.args = <<Const("int", "1", 7)>>
          /\ outcome.node.node.kind = "Filter" /\ outcome.node.node.name = "a"
          /\ outcome.node.node.node = Name("x", "load", 1)
    /\ (pc = "parse_expression" /\ Types(stream) = <<"name", "is", "not", "name">>) =>
          /\ outcome.node.kind = "Not"
          /\ outcome.node.node.kind = "Test"
          /\ outcome.node.node.node = Name("x", "load", 1)

\* parse_expression read x | a is not b and returned
\* Not(Test(Filter(x, a), b))
C11_Witness ==
    /\ pc = "parse_expression"
    /\ Types(stream) = <<"name", "pipe", "name", "is", "not", "name">>
    /\ outcome.ok
    /\ outcome.node.kind = "Not"
    /\ outcome.node.node.kind = "Test"
    /\ outcome.node.node.node.kind = "Filter"
    /\ outcome.node.node.node.node.kind = "Name"

(***************************************************************************)
(* For loops: for x in E [if G]                                            *)
(***************************************************************************)
MaxElements == 3

\* the forms of an element of the iterable
ElementForms == {<<"y">>, <<"1">>, <<"y", "or", "1">>,
                 <<"lparen", "y", "if", "x", "else", "1", "rparen">>,
                 <<"y", "is", "t">>, <<"y", "is", "t", "1">>}

\* the guard after the iterable: none, an expression, a conditional
GuardForms == {<<>>, <<"if", "x">>, <<"if", "x", "if", "y", "else", "1">>}

\* the elements i.. of the iterable, a comma between them
RECURSIVE ElementList(_, _)
ElementList(elements, i) ==
    IF i > Len(elements) THEN <<>>
    ELSE elements[i] \o (IF i < Len(elements) THEN <<"comma">> ELSE <<>>)
         \o ElementList(elements, i + 1)

ForTokens(elements, trailing, guard, else_) ==
    <<"block_begin", "for", "x", "in">> \o ElementList(elements, 1)
    \o (IF trailing THEN <<"comma">> ELSE <<>>) \o guard
    \o <<"block_end", "hello">>
    \o (IF else_ THEN <<"block_begin", "else", "block_end", "world">> ELSE <<>>)
    \o <<"block_begin", "endfor", "block_end">>

InitFor ==
    \E elements \in SeqsUpTo(ElementForms, MaxElements), trailing \in BOOLEAN,
       guard \in GuardForms, else_ \in BOOLEAN :
        /\ trailing => elements # <<>>
        /\ Construct(ForTokens(elements, trailing, guard, else_), "t.html",
                     NoExtensions)

NextFor == CallParse

SpecFor == InitFor /\ [][NextFor]_vars

\* the places of the if tokens outside parentheses after the in of the for
\* statement, up to the end of the statement's opening block
GuardPlaces ==
    {i \in 5..Len(stream) :
        /\ stream[i].type = "if"
        /\ Depth(i) = 0
        /\ \A j \in 5..i : stream[j].type # "block_end"}

\* the place where the iterable ends: the first such if, or the block end
IterableEnd ==
    IF GuardPlaces # {} THEN Ascending(GuardPlaces)[1]
    ELSE Ascending({i \in 5..Len(stream) : stream[i].type = "block_end"})[1]

\* the root of the iterable and the roots of its elements when it is a tuple
IterableRoots(iter) ==
    {iter} \cup (IF iter.kind = "Tuple"
                 THEN {iter.items[i] : i \in 1..Len(iter.items)} ELSE {})

\* the for statement is for x in E ..., E with one element at least and no
\* comma left open before an if (parse_tuple reads an element after a comma
\* unless a token of _tuple_edge_tokens follows, and if is none of them)
IsForStatement ==
    /\ TypeAt(2) = "for" /\ TypeAt(4) = "in" /\ IterableEnd > 5
    /\ (GuardPlaces # {} => stream[IterableEnd - 1].type # "comma")

\* the first if outside parentheses comes right after the argument that a
\* test takes without parentheses: E ends with  is name argument
IfAfterTestArgument ==
    /\ GuardPlaces # {}
    /\ IterableEnd > 7
    /\ stream[IterableEnd - 3].type = "is"
    /\ stream[IterableEnd - 2].type = "name"
    /\ stream[IterableEnd - 1].type \in {"name", "string", "integer", "float"}

\* what C12 says but for the roots of the iterable: the iterable is E, read
\* with conditional expressions disabled and made of the tokens before the
\* if only; the guard is G, made of the tokens after the if, and none
\* without an if
ForIterableAndGuard(node) ==
    /\ node.kind = "For"
    /\ node.iter = Invoke("parse_tuple", Self, 5, <<FALSE, FALSE, TRUE>>).node
    /\ \A m \in NodesOf(node.iter) :
          m.kind # "None" => m.lineno \in 5..(IterableEnd - 1)
    /\ IF GuardPlaces = {} THEN node.test = NoneNode
       ELSE /\ node.test =
                  Invoke("parse_expression", Self, IterableEnd + 1, <<FALSE>>).node
            /\ \A m \in NodesOf(node.test) :
                  m.kind # "None" => m.lineno > IterableEnd

MaxParts == 2

PartKinds == {"hello", "empty", "interp", "for", "for_else", "if", "if_else",
              "block", "macro", "call", "filter", "nested", "unclosed",
              "named_end"}

\* the tokens of one part of a template
PartTokens(kind) ==
    CASE kind \in {"hello", "empty"} -> <<kind>>
      [] kind = "interp" -> <<"variable_begin", "1", "variable_end">>
      [] kind = "for" ->
            <<"block_begin", "for", "x", "in", "y", "block_end", "world",
              "block_begin", "endfor", "block_end">>
      [] kind = "for_else" ->
            <<"block_begin", "for", "x", "in", "y", "block_end", "world",
              "block_begin", "else", "block_end", "hello",
              "block_begin", "endfor", "block_end">>
      [] kind = "if" ->
            <<"block_begin", "if", "x", "block_end", "world",
              "block_begin", "endif", "block_end">>
      [] kind = "if_else" ->
            <<"block_begin", "if", "x", "block_end", "world",
              "block_begin", "elif", "y", "block_end", "empty",
              "block_begin", "else", "block_end", "hello",
              "block_begin", "endif", "block_end">>
      [] kind = "block" ->
            <<"block_begin", "block", "a", "block_end", "world",
              "block_begin", "endblock", "block_end">>
      [] kind = "macro" ->
            <<"block_begin", "macro", "f", "lparen", "rparen", "block_end", "world",
              "block_begin", "endmacro", "block_end">>
      [] kind = "call" ->
            <<"block_begin", "call", "f", "lparen", "rparen", "block_end", "world",
              "block_begin", "endcall", "block_end">>
      [] kind = "filter" ->
            <<"block_begin", "filter", "f", "block_end", "world",
              "block_begin", "endfilter", "block_end">>
      [] kind = "named_end" ->
            <<"block_begin", "block", "a", "block_end", "world",
              "block_begin", "endblock", "a", "block_end">>
      [] kind = "unclosed" ->
            <<"block_begin", "if", "x", "block_end", "world">>
      [] kind = "nested" ->
            <<"block_begin", "if", "x", "block_end", "hello",
              "block_begin", "for", "x", "in", "y", "block_end", "world",
              "variable_begin", "1", "variable_end",
              "block_begin", "endfor", "block_end", "empty",
              "block_begin", "endif", "block_end">>

RECURSIVE PartsTokens(_, _)
PartsTokens(parts, i) ==
    IF i > Len(parts) THEN <<>>
    ELSE PartTokens(parts[i]) \o PartsTokens(parts, i + 1)

InitTemplate ==
    \E parts \in SeqsUpTo(PartKinds, MaxParts) :
        \E from \in 1..(Len(PartsTokens(parts, 1)) + 1) :
            Construct(SubSeq(PartsTokens(parts, 1), from,
                             Len(PartsTokens(parts, 1))),
                      "t.html", NoExtensions)

NextTemplate == CallParse \/ CallParseStatement

SpecTemplate == InitTemplate /\ [][NextTemplate]_vars

(***************************************************************************)
(* C13: literal text survives the parse, in order                          *)
(***************************************************************************)
\* a fragment of literal text: a Const that stands for a data token of the
\* stream (an interpolated constant such as the 1 of {{ 1 }} is an
\* expression, not literal text)
IsLiteralFragment(m) ==
    /\ m.kind = "Const"
    /\ m.lineno \in 1..Len(stream)
    /\ stream[m.lineno].type = "data"

RECURSIVE LiteralFragments(_), FragmentsOfAll(_, _)
\* the literal fragments that are children of Output nodes, in pre-order
LiteralFragments(n) ==
    (IF n.kind = "Output" THEN SelectSeq(n.nodes, IsLiteralFragment) ELSE <<>>)
    \o FragmentsOfAll(Children(n), 1)

FragmentsOfAll(nodes, i) ==
    IF i > Len(nodes) THEN <<>>
    ELSE LiteralFragments(nodes[i]) \o FragmentsOfAll(nodes, i + 1)

IsLiteralText(token) == token.type = "data" /\ token.value # ""

\* the data tokens of the stream that carry text, in stream order
LiteralText == SelectSeq(stream, IsLiteralText)

\* the stream holds data and interpolations only
OnlyDataAndInterpolation == \A i \in 1..Len(stream) : stream[i].type # "block_begin"

\* C13: when parse succeeds, the literal Const fragments inside Output nodes,
\* read in pre-order, are the non-empty data tokens of the stream in stream
\* order (same values, same places); a stream of data and interpolations only
\* gives one Output node at most, holding every fragment; and no Output node
\* is empty.
C13_LiteralRoundTrip ==
    (pc = "parse" /\ outcome.ok) =>
        /\ Len(LiteralFragments(outcome.node)) = Len(LiteralText)
        /\ \A i \in 1..Len(LiteralText) :
              /\ LiteralFragments(outcome.node)[i].value = LiteralText[i].value
              /\ LiteralFragments(outcome.node)[i].lineno = LiteralText[i].lineno
        /\ OnlyDataAndInterpolation =>
              /\ Len(outcome.node.body) <= 1
              /\ \A i \in 1..Len(outcome.node.body) :
                    /\ outcome.node.body[i].kind = "Output"
                    /\ SelectSeq(outcome.node.body[i].nodes, IsLiteralFragment)
                          = LiteralFragments(outcome.node)
        /\ \A m \in NodesOf(outcome.node) : m.kind = "Output" => m.nodes # <<>>

\* a parsed template with literal text inside nested block statements and
\* after them, an empty data token and an interpolated constant
C13_Witness ==
    /\ pc = "parse" /\ outcome.ok
    /\ Len(LiteralFragments(outcome.node)) >= 4
    /\ \E i \in 1..Len(stream) : stream[i].type = "data" /\ stream[i].value = ""
    /\ \E m \in NodesOf(outcome.node) :
          /\ m.kind = "Output"
          /\ \E k \in 1..Len(m.nodes) : ~IsLiteralFragment(m.nodes[k])
    /\ \E m \in NodesOf(outcome.node) : m.kind = "For"

(***************************************************************************)
(* C14: the end keyword is handed from subparse to parse_statements        *)
(***************************************************************************)
\* the end_tokens that the block statement productions pass down
EndKindSets ==
    {{"endfor", "else"}, {"endfor"}, {"elif", "else", "endif"}, {"endif"},
     {"endblock"}, {"endmacro"}, {"endcall"}, {"endfilter"}}

\* the end keyword that closes the construct opened by a keyword
FinalEnd(keyword) ==
    CASE keyword = "for" -> "endfor"
      [] keyword = "if" -> "endif"
      [] keyword = "block" -> "endblock"
      [] keyword = "macro" -> "endmacro"
      [] keyword = "call" -> "endcall"
      [] keyword = "filter" -> "endfilter"

BlockKeywords == {"for", "if", "block", "macro", "call", "filter"}

\* subparse(end_kinds) called with the stream at token p
SubparseAt(p, end_kinds) == Invoke("subparse", Self, p, <<end_kinds>>)

\* the places of the block openers of the stream
Openers == {i \in 1..Len(stream) : stream[i].type = "block_begin"}

\* the first block opener of the stream is at i and only data precedes it
FirstOpenerAfterData(i) ==
    /\ i \in Openers
    /\ \A j \in 1..(i - 1) : stream[j].type = "data"

\* the literal text among the first n tokens of the stream
LiteralTextBefore(n) == SelectSeq(SubSeq(stream, 1, n - 1), IsLiteralText)

\* what subparse(end_kinds) hands over when it stops before the end of the
\* stream: it stands on a token of end_kinds right after a block opener, and
\* the literal text read so far is in the Output nodes of the returned body
StopsOnEndKeyword(r, end_kinds) ==
    (r.ok /\ r.pos <= Len(stream)) =>
        /\ r.pos > 1
        /\ stream[r.pos].type \in end_kinds
        /\ stream[r.pos - 1].type = "block_begin"
        /\ Len(LiteralFragments(r.node)) = Len(LiteralTextBefore(r.pos))
        /\ \A m \in NodesOf(r.node) : m.kind = "Output" => m.nodes # <<>>

\* data, then an opener followed by a token of end_kinds: one flushed Output
\* node (none without literal text), the opener consumed, the keyword not
MeetsEndKeyword(end_kinds) ==
    \A i \in Openers :
        (FirstOpenerAfterData(i) /\ Current(Self, i + 1).type \in end_kinds) =>
            /\ SubparseAt(pos, end_kinds).ok
            /\ SubparseAt(pos, end_kinds).pos = i + 1
            /\ Len(SubparseAt(pos, end_kinds).node.items)
                  = (IF LiteralTextBefore(i) = <<>> THEN 0 ELSE 1)
            /\ \A k \in 1..Len(SubparseAt(pos, end_kinds).node.items) :
                  /\ SubparseAt(pos, end_kinds).node.items[k].kind = "Output"
                  /\ Len(SubparseAt(pos, end_kinds).node.items[k].nodes)
                        = Len(LiteralTextBefore(i))

\* parse_statements after the block closer of a header: the body of subparse,
\* and one token more consumed exactly when drop_needle is set
DropsNeedle(end_kinds, drop_needle) ==
    (/\ stream # <<>>
     /\ stream[pos].type = "block_end"
     /\ SubparseAt(pos + 1, end_kinds).ok
     /\ SubparseAt(pos + 1, end_kinds).pos <= Len(stream)) =>
        LET s == Invoke("parse_statements", Self, pos, <<end_kinds, drop_needle>>)
        IN  /\ s.ok
            /\ s.node = SubparseAt(pos + 1, end_kinds).node
            /\ s.pos = SubparseAt(pos + 1, end_kinds).pos
                          + (IF drop_needle THEN 1 ELSE 0)

\* a block statement production has returned
BlockStatementReturned ==
    /\ pc = "parse_statement"
    /\ outcome.ok
    /\ stream[1].type \in BlockKeywords

\* the keywords of the stream: a token of kinds right after a block opener,
\* or the token the stream starts with
IsKeyword(i, kinds) ==
    /\ stream[i].type \in kinds
    /\ (i = 1 \/ stream[i - 1].type = "block_begin")

\* the place of the end keyword that closes the construct open at token i
\* with depth constructs open, 0 when the stream ends before it
RECURSIVE ClosingPlace(_, _)
ClosingPlace(i, depth) ==
    IF i > Len(stream) THEN 0
    ELSE IF IsKeyword(i, BlockKeywords) THEN ClosingPlace(i + 1, depth + 1)
    ELSE IF IsKeyword(i, {FinalEnd(k) : k \in BlockKeywords})
    THEN IF depth = 1 THEN i ELSE ClosingPlace(i + 1, depth - 1)
    ELSE ClosingPlace(i + 1, depth)

\* the handoff itself: what subparse returns at an end keyword and what
\* parse_statements does with it
HandsOverEndKeyword ==
    pc = "ready" =>
        \A end_kinds \in EndKindSets :
            /\ StopsOnEndKeyword(SubparseAt(pos, end_kinds), end_kinds)
            /\ MeetsEndKeyword(end_kinds)
            /\ DropsNeedle(end_kinds, TRUE)
            /\ DropsNeedle(end_kinds, FALSE)

MaxTurns == 2

\* n copies of unit with sep between them
RECURSIVE Repeat(_, _, _)
Repeat(unit, sep, n) ==
    IF n = 0 THEN <<>>
    ELSE IF n = 1 THEN unit
    ELSE unit \o sep \o Repeat(unit, sep, n - 1)

\* one template per loop, written so that the loop turns n times
LoopForms(n) ==
    {<<"variable_begin">> \o e \o <<"variable_end">> :
        e \in {Repeat(<<"x">>, <<"comma">>, n),
               <<"lbracket">> \o Repeat(<<"x">>, <<"comma">>, n) \o <<"rbracket">>,
               <<"lbrace">> \o Repeat(<<"x", "colon", "1">>, <<"comma">>, n)
                   \o <<"rbrace">>,
               <<"f", "lparen">> \o Repeat(<<"x">>, <<"comma">>, n) \o <<"rparen">>,
               <<"f", "lparen", "x", "comma", "y", "assign", "1", "comma",
                 "mul", "a", "comma", "pow", "b", "rparen">>,
               <<"x", "lbracket">> \o Repeat(<<"1", "colon", "2">>, <<"comma">>, n)
                   \o <<"rbracket">>,
               <<"x">> \o Repeat(<<"dot", "a">>, <<>>, n),
               <<"x">> \o Repeat(<<"pipe", "f">>, <<>>, n) \o <<"is", "t">>,
               <<"x">> \o Repeat(<<"if", "y", "else", "1">>, <<>>, n)}
           \cup {<<"x">> \o Repeat(<<op, "x">>, <<>>, n) :
                    op \in {"or", "and", "eq", "add", "sub", "tilde", "mul", "div",
                            "floordiv", "mod", "pow"}}}
    \cup {<<"block_begin", "print">> \o Repeat(<<"x">>, <<"comma">>, n)
              \o <<"block_end">>,
          <<"block_begin", "from", "t", "import">>
              \o Repeat(<<"a", "as", "b">>, <<"comma">>, n) \o <<"block_end">>,
          <<"block_begin", "macro", "f", "lparen">>
              \o Repeat(<<"a", "assign", "1">>, <<"comma">>, n)
              \o <<"rparen", "block_end", "hello", "block_begin", "endmacro",
                   "block_end">>,
          Repeat(<<"hello", "variable_begin", "x", "variable_end",
                   "block_begin", "x", "block_end">>, <<>>, n),
          <<"block_begin", "for", "x", "in", "y", "block_end">>
              \o Repeat(<<"hello">>, <<>>, n)
              \o <<"block_begin", "endfor", "block_end">>,
          <<"block_begin", "if", "x", "block_end">>
              \o Repeat(<<"block_begin", "elif", "y", "block_end">>, <<>>, n)
              \o <<"block_begin", "endif", "block_end">>,
          <<"block_begin", "block", "a", "block_end", "block_begin", "endblock",
            "block_end">>,
          <<"block_begin", "call", "f", "lparen", "rparen", "block_end",
            "block_begin", "endcall", "block_end">>,
          <<"block_begin", "filter", "f", "block_end", "block_begin",
            "endfilter", "block_end">>,
          <<"block_begin", "extends", "t", "block_end",
            "block_begin", "include", "t", "block_end">>}

InitLoops ==
    \E n \in 0..MaxTurns :
        \E form \in LoopForms(n) :
            \E from \in 1..(Len(form) + 1) :
                \E to \in (from - 1)..Len(form) :
                    Construct(SubSeq(form, from, to), "t.html", NoExtensions)

NextLoops == CallParse \/ CallParseStatement \/ CallParseExpression

SpecLoops == InitLoops /\ [][NextLoops]_vars

(***************************************************************************)
(* C15: one outcome, no step back, every turn of a loop consumes           *)
(***************************************************************************)
\* the node that the postfix methods are handed
HandedNode == Name("n", "load", 1)

\* the calls of the parsing methods; strict marks the methods that begin by
\* consuming a token, the others may return without reading anything
MethodCalls ==
    <<[method |-> "parse", args |-> <<>>, strict |-> FALSE],
      [method |-> "subparse", args |-> <<{}>>, strict |-> FALSE],
      [method |-> "subparse", args |-> <<{"endmacro"}>>, strict |-> FALSE],
      [method |-> "parse_statement", args |-> <<>>, strict |-> FALSE],
      [method |-> "parse_statements", args |-> <<{"endmacro"}, TRUE>>, strict |-> TRUE],
      [method |-> "parse_statements", args |-> <<{"endmacro"}, FALSE>>, strict |-> TRUE],
      [method |-> "parse_tuple", args |-> <<FALSE, FALSE, FALSE>>, strict |-> FALSE],
      [method |-> "parse_tuple", args |-> <<TRUE, FALSE, FALSE>>, strict |-> FALSE],
      [method |-> "parse_tuple", args |-> <<FALSE, TRUE, FALSE>>, strict |-> FALSE],
      [method |-> "parse_tuple", args |-> <<FALSE, FALSE, TRUE>>, strict |-> FALSE],
      [method |-> "parse_postfix", args |-> <<HandedNode>>, strict |-> FALSE],
      [method |-> "parse_filter", args |-> <<HandedNode, FALSE>>, strict |-> FALSE],
      [method |-> "parse_filter", args |-> <<NoneNode, TRUE>>, strict |-> TRUE],
      [method |-> "parse_subscript", args |-> <<HandedNode>>, strict |-> TRUE],
      [method |-> "parse_call", args |-> <<HandedNode>>, strict |-> TRUE],
      [method |-> "parse_test", args |-> <<HandedNode>>, strict |-> TRUE],
      [method |-> "parse_assign", args |-> <<HandedNode>>, strict |-> TRUE],
      [method |-> "parse_expression", args |-> <<FALSE>>, strict |-> TRUE],
      [method |-> "parse_expression", args |-> <<TRUE>>, strict |-> TRUE],
      [method |-> "parse_primary", args |-> <<TRUE>>, strict |-> TRUE],
      [method |-> "parse_primary", args |-> <<FALSE>>, strict |-> TRUE]>>
    \o [i \in 1..27 |->
          [method |-> <<"parse_for", "parse_if", "parse_block", "parse_extends",
                        "parse_include", "parse_import", "parse_from",
                        "parse_signature", "parse_call_block",
                        "parse_filter_block", "parse_macro", "parse_print",
                        "parse_condexpr", "parse_or", "parse_and",
                        "parse_compare", "parse_add", "parse_sub",
                        "parse_concat", "parse_mul", "parse_div",
                        "parse_floordiv", "parse_mod", "parse_pow",
                        "parse_unary", "parse_list", "parse_dict">>[i],
           args |-> <<>>, strict |-> TRUE]]
    \o <<[method |-> "parse_subscribed", args |-> <<>>, strict |-> TRUE]>>

\* the turns of a loop that show in the node it built
RECURSIVE Turns(_)
Turns(n) ==
    CASE n.kind \in {"Tuple", "List", "Dict", "list"} -> Len(n.items)
      [] n.kind = "Template" -> Len(n.body)
      [] n.kind = "Output" -> Len(n.nodes)
      [] n.kind = "Call" -> Len(n.args) + Len(n.kwargs)
      [] n.kind = "Compare" -> Len(n.ops)
      [] n.kind = "Concat" -> Len(n.nodes) - 1
      [] n.kind = "FromImport" -> Len(n.names)
      [] n.kind = "Macro" -> Len(n.args)
      [] n.kind \in {"Or", "And", "Add", "Sub", "Mul", "Div", "FloorDiv", "Mod",
                     "Pow"} ->
            1 + (IF n.left.kind = n.kind THEN Turns(n.left) ELSE 0)
      [] n.kind = "CondExpr" ->
            1 + (IF n.expr1.kind = "CondExpr" THEN Turns(n.expr1) ELSE 0)
      [] n.kind = "Filter" ->
            1 + (IF n.node.kind = "Filter" THEN Turns(n.node) ELSE 0)
      [] OTHER -> 0

\* r is one outcome: a return value and no error, or an error and no node
OneOutcome(r) ==
    \/ r.ok /\ r.err = NoErr
    \/ ~r.ok /\ r.node = NoneNode /\ r.err.kind # ""

\* the method called at the current token: one outcome, the position not
\* behind where it started nor past the end of the stream, at least one token
\* consumed by a method that begins with one, at least as many tokens
\* consumed as its loop made turns, and the node handed in returned as it is
\* when nothing was consumed
NeverBackAndConsuming(call) ==
    LET r == Invoke(call.method, Self, pos, call.args)
    IN  /\ OneOutcome(r)
        /\ r.pos >= pos
        /\ r.pos <= Len(stream) + 1
        /\ (r.ok /\ call.strict) => r.pos > pos
        /\ r.ok => Turns(r.node) <= r.pos - pos
        /\ (r.ok /\ r.pos = pos /\ call.method \in {"parse_postfix", "parse_filter"})
              => r.node = call.args[1]

\* C15: parse ends with one outcome, a Template node with the whole stream
\* read or an error and no tree; no parsing method leaves the stream before
\* the token it was called at; and every turn of a parsing loop consumes at
\* least one token: a loop has consumed at least as many tokens as it made
\* turns, and a method that returns without consuming has made none.
C15_TerminatesAndProgresses ==
    /\ pc = "parse" =>
          /\ OneOutcome(outcome)
          /\ outcome.ok => (outcome.node.kind = "Template" /\ pos = Len(stream) + 1)
    /\ pc # "ready" => (OneOutcome(outcome) /\ pos >= 1 /\ pos <= Len(stream) + 1)
    /\ pc = "ready" =>
          \A i \in 1..Len(MethodCalls) : NeverBackAndConsuming(MethodCalls[i])

\* parse returned a Template whose loops turned: an interpolated list, call
\* or dict of two elements
C15_Witness ==
    /\ pc = "parse"
    /\ outcome.ok
    /\ pos = Len(stream) + 1
    /\ Len(outcome.node.body) = 1
    /\ outcome.node.body[1].kind = "Output"
    /\ outcome.node.body[1].nodes # <<>>
    /\ outcome.node.body[1].nodes[1].kind \in {"List", "Dict", "Call"}
    /\ Turns(outcome.node.body[1].nodes[1]) >= 2

=============================================================================
